---- MODULE Spec2Model ----
(***************************************************************************)
(* holophyly: the fleet manager (project map, refresh, lifecycle           *)
(* operations with protection) and the websocket hub (event loop,          *)
(* broadcast, subscriptions), modelled from the Go sources.                *)
(***************************************************************************)
EXTENDS Integers, Sequences, FiniteSets, TLC

(***************************************************************************)
(* Bounds of the model.                                                    *)
(***************************************************************************)
\* number of writes to the definition files in a run
MaxFsEvents == 1
\* capacity of a client's send channel (256 in the source, scaled down)
SendCap == 1
\* capacity of the hub's broadcast channel (256 in the source, scaled down)
BroadcastCap == 1
\* length of the container lists given to determineProjectStatus
MaxContainers == 3
\* width in bits of the cumulative counters (64 in the source, scaled down)
CounterBits == 3
\* number of entries of the project maps given to ListProjects
MaxListed == 3
\* number of ListProjects calls on one map
MaxListCalls == 2
\* length of the names given to sanitizeProjectName
MaxNameLen == 3
\* number of frames the log reader delivers
MaxFrames == 2
\* capacity of the log output channels (100 in the source, scaled down)
LogCap == 1
\* number of samples fetched from the daemon for one container
MaxFetches == 4
\* number of samples the feed of StreamStats delivers
MaxSamples == 2

(***************************************************************************)
(* The world of the manager: definition files, their directories, the      *)
(* containers the daemon may run.                                          *)
(***************************************************************************)
\* f1 and f3 are two YAML files of directory d1 under root r1; f2 is the
\* YAML file of directory d2 under root r2
Files == {"f1", "f2", "f3"}

\* the definition file that is written during a run
Edited == "f1"

\* the second YAML file of directory d1
Sibling == "f3"

\* Scanner.paths, in the configured order
ScanPaths == <<"r1", "r2">>

Roots == {"r1", "r2"}

\* filepath.WalkDir visits in lexical order
FilesUnder(r) == IF r = "r1" THEN <<"f1", "f3">> ELSE <<"f2">>

DirOf(f) == IF f = "f2" THEN "d2" ELSE "d1"

ProjectIDs == {"id1", "id2", "id3"}

\* hex(sha256(path)[:8]): a function of the path alone
generateProjectID(f) ==
  IF f = "f1" THEN "id1" ELSE IF f = "f2" THEN "id2" ELSE "id3"

\* the resolved compose project name; without a name override it is the
\* base name of the definition file's directory
GetComposeProjectName(f) == DirOf(f)

ComposeNames == {"d1", "d2"}

\* file contents: two versions that declare services, one that declares
\* none, one that does not parse
Contents == {"svcA", "svcB", "none", "bad"}

ParseFails(c) == c = "bad"

ServicesOf(c) ==
  IF c = "svcA" THEN {"web"} ELSE IF c = "svcB" THEN {"web", "db"} ELSE {}

\* hex(sha256(content)): equal digests iff equal contents
fileChecksum(c) == <<"sha256", c>>

ContainerIDs == {"c1", "c2"}

\* the daemon lists containers in this order; names and images are lists of
\* the words they are made of
ContainerDefs ==
  << [ID |-> "c1", Label |-> "d1", Name |-> <<"web">>, Image |-> <<"nginx">>],
     [ID |-> "c2", Label |-> "d2", Name |-> <<"edge">>,
      Image |-> <<"traefik">>] >>

DaemonStates == {"absent", "running", "exited"}

StatusRunning == "running"
StatusStopped == "stopped"
StatusPartial == "partial"
StatusUnknown == "unknown"

ProtectionCloudflareTunnel == "cloudflare_tunnel"
ProtectionUserMarked == "user_marked"
ProtectionAutoDetected == "auto_detected"
NoReason == ""

NoObj == 0
NoHolder == "none"

\* the empty display name (a NULL column reads back as the empty string)
NoName == ""

DisplayNames == {NoName, "alpha"}

\* the absence of a row in project_preferences
NoPref == [present |-> FALSE, DisplayName |-> NoName, Hidden |-> FALSE]

Refreshers == {"periodic", "handler"}

VARIABLES
  fs,          \* file -> [content, mtime]
  fsEvents,    \* number of file-system events so far
  cache,       \* Scanner.cache: file -> [Project, ModTime, CheckSum]
  heap,        \* the model.Project instances ever allocated, by reference
  mprojects,   \* Manager.projects: project id -> reference (NoObj: no key)
  mmu,         \* Manager.mu: [w: exclusive holder, r: shared holders]
  daemon,      \* container id -> state at the daemon
  policy,      \* ProtectionConfig.Projects, as a set of project paths
  rf,          \* the Refresh call of each caller
  op,          \* the lifecycle call in progress
  rd,          \* the ListProjects/GetProject call in progress
  installed,   \* history: the map as of the last completed pass
  hclients,    \* Hub.clients
  hmu,         \* Hub.mu
  hbroadcast,  \* Hub.broadcast channel
  send,        \* client -> contents of its send channel
  closed,      \* client -> number of close(client.send) executed
  subs,        \* client -> Client.subscriptions
  cpc,         \* client -> position of its connection's goroutines
  lp,          \* the Run goroutine: [pc, msg, rem, got, c]
  bs,          \* a BroadcastToSubscribers call: [pc, msg, pid, rem, full]
  ss,          \* the StartStatsStreamer goroutine: [pc]
  ctxDone,     \* the hub's context is cancelled
  panicked,    \* a goroutine panicked (send on a closed channel)
  roots,       \* Scanner.paths: root -> the root can be walked
  store,       \* the preference store: project id -> row (NoPref: no row)
  prefcall,    \* history: the last preference call and what it returned
  input,       \* the arguments of the function under study
  output,      \* the values its calls returned, in order
  logs,        \* a StreamLogs call on a container without TTY
  gs,          \* StatsCollector.prevStats of one container and its callers
  stream       \* a StreamStats call

mvars == <<fs, fsEvents, cache, heap, mprojects, mmu, daemon, policy, rf, op,
           rd, installed>>
hvars == <<hclients, hmu, hbroadcast, send, closed, subs, cpc, lp, bs, ss,
           ctxDone, panicked>>
lvars == <<logs, gs, stream>>
xvars == <<roots, store, prefcall, input, output, lvars>>
vars == <<mvars, hvars, xvars>>

(***************************************************************************)
(* Pure helpers of the manager.                                            *)
(***************************************************************************)
RECURSIVE CountState(_, _)
CountState(containers, states) ==
  IF containers = <<>> THEN 0
  ELSE (IF Head(containers).State \in states THEN 1 ELSE 0)
       + CountState(Tail(containers), states)

\* lines 421-445
determineProjectStatusAnyRunning(containers) ==
  IF Len(containers) = 0 THEN StatusStopped
  ELSE IF CountState(containers, {"running"}) > 0 THEN StatusRunning
  ELSE IF CountState(containers, {"exited", "dead", "created"})
          = Len(containers)
  THEN StatusStopped
  ELSE StatusPartial

determineProjectStatus(containers) ==
  IF Len(containers) = 0 THEN StatusStopped
  ELSE LET running == CountState(containers, {"running"})
           stopped == CountState(containers, {"exited", "dead", "created"})
       IN IF running = Len(containers) THEN StatusRunning
          ELSE IF stopped = Len(containers) THEN StatusStopped
          ELSE StatusPartial

cloudflarePatterns ==
  {"cloudflare", "cloudflared", "cf-tunnel", "cftunnel", "tunnel", "argo"}

criticalPatterns ==
  {"traefik", "nginx-proxy", "reverse-proxy", "gateway", "ingress"}

Words(name) == {name[i] : i \in 1..Len(name)}

\* <<matched, reason>> of a name: the tunnel keywords are tried before the
\* reverse-proxy keywords (IsProtectedByPatternCriticalFirst: after them)
IsProtectedByPatternCriticalFirst(name) ==
  IF Words(name) \cap criticalPatterns # {}
  THEN <<TRUE, ProtectionAutoDetected>>
  ELSE IF Words(name) \cap cloudflarePatterns # {}
  THEN <<TRUE, ProtectionCloudflareTunnel>>
  ELSE <<FALSE, NoReason>>

IsProtectedByPattern(name) ==
  IF Words(name) \cap cloudflarePatterns # {}
  THEN <<TRUE, ProtectionCloudflareTunnel>>
  ELSE IF Words(name) \cap criticalPatterns # {}
  THEN <<TRUE, ProtectionAutoDetected>>
  ELSE <<FALSE, NoReason>>

\* ProtectionConfig.IsProtected on a project path (the directory)
IsProtected(path) == path \in policy

RECURSIVE FirstHeuristic(_)
FirstHeuristic(containers) ==
  IF containers = <<>> THEN <<FALSE, NoReason>>
  ELSE LET c == Head(containers)
       IN IF IsProtectedByPattern(c.Name)[1] THEN IsProtectedByPattern(c.Name)
          ELSE IF IsProtectedByPattern(c.Image)[1]
          THEN IsProtectedByPattern(c.Image)
          ELSE FirstHeuristic(Tail(containers))

applyProtection(proj) ==
  IF proj.Protected THEN proj
  ELSE IF IsProtected(proj.Path)
  THEN [proj EXCEPT !.Protected = TRUE,
                    !.ProtectionReason = ProtectionUserMarked]
  ELSE IF FirstHeuristic(proj.Containers)[1]
  THEN [proj EXCEPT !.Protected = TRUE,
                    !.ProtectionReason = FirstHeuristic(proj.Containers)[2]]
  ELSE proj

\* Client.ListContainers: the containers the daemon has, in its order
ListContainers ==
  LET Live(i) == daemon[ContainerDefs[i].ID] # "absent"
      Rec(i) == [ID |-> ContainerDefs[i].ID,
                 Name |-> ContainerDefs[i].Name,
                 Image |-> ContainerDefs[i].Image,
                 Label |-> ContainerDefs[i].Label,
                 State |-> daemon[ContainerDefs[i].ID]]
      F[i \in 0..Len(ContainerDefs)] ==
        IF i = 0 THEN <<>>
        ELSE IF Live(i) THEN Append(F[i - 1], Rec(i)) ELSE F[i - 1]
  IN F[Len(ContainerDefs)]

\* grouped by compose project label; an empty list stands for a missing key
GetContainersByComposeProject ==
  LET all == ListContainers
  IN [n \in ComposeNames |-> SelectSeq(all, LAMBDA c : c.Label = n)]

NoCache == [Project |-> NoObj, ModTime |-> -1, CheckSum |-> <<>>]

InMap(id) == mprojects[id] # NoObj

EmptyMap == [id \in ProjectIDs |-> NoObj]

\* yamlFiles, result, errors: the locals of Scan and its ScanResult;
\* ctrs, prefs, idx, newProjects: the locals of Refresh
IdleRefresh ==
  [pc |-> "idle", yamlFiles |-> <<>>, result |-> <<>>, errors |-> <<>>,
   ctrs |-> [n \in ComposeNames |-> <<>>],
   prefs |-> [id \in ProjectIDs |-> NoPref],
   idx |-> 0, newProjects |-> EmptyMap]

IdleOp ==
  [pc |-> "idle", kind |-> "none", id |-> "id1", force |-> FALSE,
   ptr |-> NoObj, saw |-> FALSE, invoked |-> FALSE, refreshed |-> FALSE,
   result |-> "none", ctrs |-> <<>>]

IdleReader == [pc |-> "idle"]

MLockFree == mmu.w = NoHolder /\ mmu.r = {}

\* RLock is granted when no writer holds the lock
CanRLock == mmu.w = NoHolder

(***************************************************************************)
(* File system and daemon events (the environment).                        *)
(***************************************************************************)
\* file f is written with content c; bump: the write changes the
\* modification time (a write within the timestamp resolution does not)
EditFile(f, c, bump) ==
  /\ fsEvents < MaxFsEvents
  /\ c # fs[f].content \/ bump
  /\ fs' = [fs EXCEPT ![f] = [content |-> c,
                              mtime |-> IF bump THEN fsEvents + 1 ELSE @.mtime]]
  /\ fsEvents' = fsEvents + 1
  /\ UNCHANGED <<cache, heap, mprojects, mmu, daemon, policy, rf, op, rd,
                 installed>>
  /\ UNCHANGED <<hvars, xvars>>

\* a configured root disappears or becomes unreadable
RootLost(r) ==
  /\ roots[r]
  /\ roots' = [roots EXCEPT ![r] = FALSE]
  /\ UNCHANGED <<mvars, hvars, store, prefcall, input, output, lvars>>

\* the root is there again
RootBack(r) ==
  /\ ~roots[r]
  /\ roots' = [roots EXCEPT ![r] = TRUE]
  /\ UNCHANGED <<mvars, hvars, store, prefcall, input, output, lvars>>

\* a running container exits on its own
ContainerExit(c) ==
  /\ daemon[c] = "running"
  /\ daemon' = [daemon EXCEPT ![c] = "exited"]
  /\ UNCHANGED <<fs, fsEvents, cache, heap, mprojects, mmu, policy, rf, op,
                 rd, installed>>
  /\ UNCHANGED <<hvars, xvars>>

(***************************************************************************)
(* Scanner.Scan and Scanner.parseComposeFile, as run by Manager.Refresh.   *)
(***************************************************************************)
\* the Project a successful parse of file f builds
NewProject(f) ==
  [ID |-> generateProjectID(f),
   Path |-> DirOf(f),
   ComposeFilePath |-> f,
   Status |-> StatusUnknown,
   Protected |-> FALSE,
   ProtectionReason |-> NoReason,
   DisplayName |-> NoName,
   Hidden |-> FALSE,
   Services |-> ServicesOf(fs[f].content),
   Containers |-> <<>>]

\* lines 158-159: the cached Project is returned
CacheHitModTimeOnly(f, c) ==
  /\ c[f].Project # NoObj
  /\ c[f].ModTime = fs[f].mtime

CacheHit(f, c) ==
  /\ c[f].Project # NoObj
  /\ c[f].ModTime = fs[f].mtime
  /\ c[f].CheckSum = fileChecksum(fs[f].content)

\* line 203: len(composeProject.Services) == 0
NoServicesNever(c) == FALSE

NoServices(c) == Cardinality(ServicesOf(c)) = 0

\* parseComposeFile on file f with cache c and heap h:
\* <<project or NoObj, cache afterwards, heap afterwards>>
parseComposeFile(f, c, h) ==
  IF CacheHit(f, c) THEN <<c[f].Project, c, h>>
  ELSE IF ParseFails(fs[f].content) THEN <<NoObj, c, h>>
  ELSE IF NoServices(fs[f].content) THEN <<NoObj, c, h>>
  ELSE <<Len(h) + 1,
         [c EXCEPT ![f] = [Project |-> Len(h) + 1,
                           ModTime |-> fs[f].mtime,
                           CheckSum |-> fileChecksum(fs[f].content)]],
         Append(h, NewProject(f))>>

\* lines 115-132: <<result.Projects, cache afterwards, heap afterwards>>
RECURSIVE ScanFiles(_, _, _, _)
ScanFiles(files, res, c, h) ==
  IF files = <<>> THEN <<res, c, h>>
  ELSE LET r == parseComposeFile(Head(files), c, h)
       IN ScanFiles(Tail(files),
                    IF r[1] = NoObj THEN res ELSE Append(res, r[1]),
                    r[2], r[3])

\* the callback of lines 81-104 on an entry that WalkDir reports with an
\* error (lines 82-84)
WalkFnOnError == "nil"

\* filepath.WalkDir on root r: when the root cannot be read the callback is
\* called with the error, and what it returns is what WalkDir returns
WalkDir(r) ==
  IF roots[r] THEN [files |-> FilesUnder(r), err |-> "nil"]
  ELSE [files |-> <<>>, err |-> WalkFnOnError]

\* lines 76-113: <<yamlFiles, result.Errors>>
RECURSIVE WalkRoots(_, _, _)
WalkRoots(paths, files, errors) ==
  IF paths = <<>> THEN <<files, errors>>
  ELSE LET w == WalkDir(Head(paths))
       IN WalkRoots(Tail(paths), files \o w.files,
                    IF w.err # "nil" /\ w.err # "canceled"
                    THEN Append(errors, [Path |-> Head(paths), Error |-> w.err])
                    ELSE errors)

\* m.scanner.Scan(ctx), line 49 of the manager: the walk of the roots
ScanWalk(g) ==
  /\ rf[g].pc = "idle"
  /\ LET w == WalkRoots(ScanPaths, <<>>, <<>>)
     IN rf' = [rf EXCEPT ![g] = [IdleRefresh EXCEPT !.pc = "scanning",
                                                   !.yamlFiles = w[1],
                                                   !.errors = w[2]]]
  /\ UNCHANGED <<fs, fsEvents, cache, heap, mprojects, mmu, daemon, policy,
                 op, rd, installed>>
  /\ UNCHANGED <<hvars, xvars>>

\* Scan, lines 115-135: the files found are parsed and Scan returns
ScanParse(g) ==
  /\ rf[g].pc = "scanning"
  /\ LET r == ScanFiles(rf[g].yamlFiles, <<>>, cache, heap)
     IN /\ cache' = r[2]
        /\ heap' = r[3]
        /\ rf' = [rf EXCEPT ![g].pc = "scanned", ![g].result = r[1]]
  /\ UNCHANGED <<fs, fsEvents, mprojects, mmu, daemon, policy, op, rd,
                 installed>>
  /\ UNCHANGED <<hvars, xvars>>

\* Scan, lines 115-121: the context is found cancelled before file n + 1 is
\* parsed; Scan returns the error and Refresh returns it (lines 50-52)
ScanCancelled(g) ==
  /\ rf[g].pc = "scanning"
  /\ \E n \in 0..(Len(rf[g].yamlFiles) - 1) :
       LET r == ScanFiles(SubSeq(rf[g].yamlFiles, 1, n), <<>>, cache, heap)
       IN /\ cache' = r[2]
          /\ heap' = r[3]
  /\ rf' = [rf EXCEPT ![g] = IdleRefresh]
  /\ UNCHANGED <<fs, fsEvents, mprojects, mmu, daemon, policy, op, rd,
                 installed>>
  /\ UNCHANGED <<hvars, xvars>>

(***************************************************************************)
(* Manager.Refresh after the scan.                                         *)
(***************************************************************************)
RefreshGetContainers(g) ==
  /\ rf[g].pc = "scanned"
  /\ rf' = [rf EXCEPT ![g].pc = "lock",
                      ![g].ctrs = GetContainersByComposeProject,
                      ![g].prefs = store]
  /\ UNCHANGED <<fs, fsEvents, cache, heap, mprojects, mmu, daemon, policy,
                 op, rd, installed>>
  /\ UNCHANGED <<hvars, xvars>>

\* lines 55-58: m.projects after the listing of the containers failed
MapOnFailureFromScan(g) ==
  [id \in ProjectIDs |->
     IF \E i \in 1..Len(rf[g].result) : heap[rf[g].result[i]].ID = id
     THEN rf[g].result[CHOOSE i \in 1..Len(rf[g].result) :
                         heap[rf[g].result[i]].ID = id]
     ELSE NoObj]

MapOnFailure(g) == mprojects

\* listing the daemon's containers fails: Refresh returns the error
RefreshGetContainersFails(g) ==
  /\ rf[g].pc = "scanned"
  /\ rf' = [rf EXCEPT ![g] = IdleRefresh]
  /\ mprojects' = MapOnFailure(g)
  /\ UNCHANGED <<fs, fsEvents, cache, heap, mmu, daemon, policy, op, rd,
                 installed>>
  /\ UNCHANGED <<hvars, xvars>>

RefreshLock(g) ==
  /\ rf[g].pc = "lock"
  /\ MLockFree
  /\ mmu' = [mmu EXCEPT !.w = g]
  /\ rf' = [rf EXCEPT ![g].pc = "loop", ![g].idx = 1,
                      ![g].newProjects = EmptyMap]
  /\ UNCHANGED <<fs, fsEvents, cache, heap, mprojects, daemon, policy, op,
                 rd, installed>>
  /\ UNCHANGED <<hvars, xvars>>

\* lines 70-74: protection is carried over from the entry e of the old map
CarryProtectionDropped(proj, e) == proj

CarryProtection(proj, e) ==
  IF e # NoObj
  THEN [proj EXCEPT !.Protected = heap[e].Protected,
                    !.ProtectionReason = heap[e].ProtectionReason]
  ELSE proj

\* lines 76-81: the stored preference of the project, when there is one
ApplyPreference(proj, prefs) ==
  IF prefs[proj.ID].present
  THEN [proj EXCEPT !.DisplayName = prefs[proj.ID].DisplayName,
                    !.Hidden = prefs[proj.ID].Hidden]
  ELSE proj

\* lines 83-90 (and 380-387 of refreshProject): the containers and the
\* status are written together
AttachContainersKeepingStatus(proj, ctrs) ==
  [proj EXCEPT !.Containers = ctrs[GetComposeProjectName(proj.ComposeFilePath)]]

AttachContainers(proj, ctrs) ==
  LET containers == ctrs[GetComposeProjectName(proj.ComposeFilePath)]
  IN IF containers # <<>>
     THEN [proj EXCEPT !.Containers = containers,
                       !.Status = determineProjectStatus(containers)]
     ELSE [proj EXCEPT !.Status = StatusStopped, !.Containers = <<>>]

\* line 95 stores into the local newProjects; m.projects is left alone
StoreProjectInPlace(g, id, o) ==
  [np |-> [rf[g].newProjects EXCEPT ![id] = o],
   mp |-> [mprojects EXCEPT ![id] = o]]

StoreProject(g, id, o) ==
  [np |-> [rf[g].newProjects EXCEPT ![id] = o], mp |-> mprojects]

\* one iteration of the loop of lines 69-96
RefreshStep(g) ==
  /\ rf[g].pc = "loop"
  /\ mmu.w = g
  /\ rf[g].idx <= Len(rf[g].result)
  /\ LET o == rf[g].result[rf[g].idx]
         proj == heap[o]
         merged == applyProtection(
                     AttachContainers(
                       ApplyPreference(
                         CarryProtection(proj, mprojects[proj.ID]),
                         rf[g].prefs),
                       rf[g].ctrs))
         st == StoreProject(g, proj.ID, o)
     IN /\ heap' = [heap EXCEPT ![o] = merged]
        /\ rf' = [rf EXCEPT ![g].idx = @ + 1, ![g].newProjects = st.np]
        /\ mprojects' = st.mp
  /\ UNCHANGED <<fs, fsEvents, cache, mmu, daemon, policy, op, rd, installed>>
  /\ UNCHANGED <<hvars, xvars>>

\* line 98: m.projects = newProjects
InstalledMapMerged(g) ==
  [id \in ProjectIDs |->
     IF rf[g].newProjects[id] # NoObj THEN rf[g].newProjects[id]
     ELSE mprojects[id]]

InstalledMap(g) == rf[g].newProjects

\* line 98 and the deferred Unlock
RefreshCommit(g) ==
  /\ rf[g].pc = "loop"
  /\ mmu.w = g
  /\ rf[g].idx > Len(rf[g].result)
  /\ mprojects' = InstalledMap(g)
  /\ installed' = InstalledMap(g)
  /\ mmu' = [mmu EXCEPT !.w = NoHolder]
  /\ rf' = [rf EXCEPT ![g] = IdleRefresh]
  /\ UNCHANGED <<fs, fsEvents, cache, heap, daemon, policy, op, rd>>
  /\ UNCHANGED <<hvars, xvars>>

(***************************************************************************)
(* Readers: ListProjects and GetProject.                                   *)
(***************************************************************************)
ReadBegin ==
  /\ rd.pc = "idle"
  /\ CanRLock
  /\ mmu' = [mmu EXCEPT !.r = @ \cup {"reader"}]
  /\ rd' = [rd EXCEPT !.pc = "reading"]
  /\ UNCHANGED <<fs, fsEvents, cache, heap, mprojects, daemon, policy, rf,
                 op, installed>>
  /\ UNCHANGED <<hvars, xvars>>

ReadEnd ==
  /\ rd.pc = "reading"
  /\ rd' = IdleReader
  /\ mmu' = [mmu EXCEPT !.r = @ \ {"reader"}]
  /\ UNCHANGED <<fs, fsEvents, cache, heap, mprojects, daemon, policy, rf,
                 op, installed>>
  /\ UNCHANGED <<hvars, xvars>>

(***************************************************************************)
(* SetProjectProtection.                                                   *)
(***************************************************************************)
SetProjectProtection(id, protected, reason) ==
  /\ MLockFree
  /\ IF InMap(id)
     THEN heap' = [heap EXCEPT
                     ![mprojects[id]].Protected = protected,
                     ![mprojects[id]].ProtectionReason =
                        IF protected THEN reason ELSE NoReason]
     ELSE heap' = heap
  /\ UNCHANGED <<fs, fsEvents, cache, mprojects, mmu, daemon, policy, rf, op,
                 rd, installed>>
  /\ UNCHANGED <<hvars, xvars>>

(***************************************************************************)
(* SetProjectDisplayName and SetProjectHidden.                             *)
(***************************************************************************)
\* what a call of the store may return
StoreOutcomes == {"ok", "error"}

\* lines 262 and 284: err != nil
StoreErrorIgnored(outcome) == FALSE

StoreReturnsError(outcome) == outcome = "error"

\* Store.SetDisplayName: insert the row or update its display_name
StoreSetDisplayName(id, displayName) ==
  [store EXCEPT ![id] = [@ EXCEPT !.present = TRUE,
                                  !.DisplayName = displayName]]

\* Store.SetHidden: insert the row or update its hidden column
StoreSetHidden(id, hidden) ==
  [store EXCEPT ![id] = [@ EXCEPT !.present = TRUE, !.Hidden = hidden]]

\* the record of a preference call: called, outcome: whether and how the
\* store was called; n distinguishes consecutive calls
PrefCall(fn, id, called, outcome, result) ==
  [fn |-> fn, id |-> id, called |-> called, outcome |-> outcome,
   result |-> result, n |-> 1 - prefcall.n]

\* outcome: what the store returns when it is called; it writes the row
\* only when it returns no error
SetProjectDisplayName(id, displayName, outcome) ==
  /\ MLockFree
  /\ IF ~InMap(id)
     THEN /\ prefcall' = PrefCall("SetProjectDisplayName", id, FALSE, "ok",
                                  "notfound")
          /\ UNCHANGED <<store, heap>>
     ELSE IF StoreReturnsError(outcome)
     THEN /\ prefcall' = PrefCall("SetProjectDisplayName", id, TRUE, outcome,
                                  "error")
          /\ UNCHANGED <<store, heap>>
     ELSE /\ prefcall' = PrefCall("SetProjectDisplayName", id, TRUE, outcome,
                                  "ok")
          /\ store' = IF outcome = "ok"
                      THEN StoreSetDisplayName(id, displayName) ELSE store
          /\ heap' = [heap EXCEPT ![mprojects[id]].DisplayName = displayName]
  /\ UNCHANGED <<fs, fsEvents, cache, mprojects, mmu, daemon, policy, rf, op,
                 rd, installed>>
  /\ UNCHANGED <<hvars, roots, input, output, lvars>>

SetProjectHidden(id, hidden, outcome) ==
  /\ MLockFree
  /\ IF ~InMap(id)
     THEN /\ prefcall' = PrefCall("SetProjectHidden", id, FALSE, "ok",
                                  "notfound")
          /\ UNCHANGED <<store, heap>>
     ELSE IF StoreReturnsError(outcome)
     THEN /\ prefcall' = PrefCall("SetProjectHidden", id, TRUE, outcome,
                                  "error")
          /\ UNCHANGED <<store, heap>>
     ELSE /\ prefcall' = PrefCall("SetProjectHidden", id, TRUE, outcome, "ok")
          /\ store' = IF outcome = "ok"
                      THEN StoreSetHidden(id, hidden) ELSE store
          /\ heap' = [heap EXCEPT ![mprojects[id]].Hidden = hidden]
  /\ UNCHANGED <<fs, fsEvents, cache, mprojects, mmu, daemon, policy, rf, op,
                 rd, installed>>
  /\ UNCHANGED <<hvars, roots, input, output, lvars>>

(***************************************************************************)
(* StartProject, StopProject, RestartProject and refreshProject.           *)
(***************************************************************************)
OpKinds == {"start", "stop", "restart"}

OpCall(kind, id, force) ==
  /\ op.pc = "idle"
  /\ kind # "stop" => ~force
  /\ op' = [IdleOp EXCEPT !.pc = "get", !.kind = kind, !.id = id,
                          !.force = force]
  /\ UNCHANGED <<fs, fsEvents, cache, heap, mprojects, mmu, daemon, policy,
                 rf, rd, installed>>
  /\ UNCHANGED <<hvars, xvars>>

\* m.GetProject(id): the lookup under the read lock
OpGetProject ==
  /\ op.pc = "get"
  /\ CanRLock
  /\ op' = IF InMap(op.id)
           THEN [op EXCEPT !.pc = "check", !.ptr = mprojects[op.id]]
           ELSE [op EXCEPT !.pc = "done", !.result = "notfound"]
  /\ UNCHANGED <<fs, fsEvents, cache, heap, mprojects, mmu, daemon, policy,
                 rf, rd, installed>>
  /\ UNCHANGED <<hvars, xvars>>

\* line 178: proj.Protected && !force
StopRefusedNever(protected, force) == FALSE

StopRefused(protected, force) == protected /\ ~force

\* line 206: proj.Protected
RestartRefusedNever(protected) == FALSE

RestartRefused(protected) == protected

Refused(kind, protected, force) ==
  IF kind = "stop" THEN StopRefused(protected, force)
  ELSE IF kind = "restart" THEN RestartRefused(protected)
  ELSE FALSE

\* the protection check, on the fields of the instance GetProject returned
\* (read without the lock)
OpCheck ==
  /\ op.pc = "check"
  /\ LET protected == heap[op.ptr].Protected
     IN op' = IF Refused(op.kind, protected, op.force)
              THEN [op EXCEPT !.pc = "done", !.saw = protected,
                              !.result = "protected"]
              ELSE [op EXCEPT !.pc = "compose", !.saw = protected]
  /\ UNCHANGED <<fs, fsEvents, cache, heap, mprojects, mmu, daemon, policy,
                 rf, rd, installed>>
  /\ UNCHANGED <<hvars, xvars>>

\* what a successful compose subcommand does to the containers of project n
ComposeEffect(kind, n) ==
  [c \in ContainerIDs |->
     IF \E i \in 1..Len(ContainerDefs) :
          ContainerDefs[i].ID = c /\ ContainerDefs[i].Label = n
     THEN IF kind = "start" THEN "running"
          ELSE IF kind = "stop" THEN "absent"
          ELSE IF daemon[c] = "absent" THEN "absent" ELSE "running"
     ELSE daemon[c]]

\* docker.ComposeUp / ComposeDown / ComposeRestart, exit code zero
OpCompose ==
  /\ op.pc = "compose"
  /\ daemon' = ComposeEffect(op.kind,
                             GetComposeProjectName(heap[op.ptr].ComposeFilePath))
  /\ op' = [op EXCEPT !.pc = "fetch", !.invoked = TRUE]
  /\ UNCHANGED <<fs, fsEvents, cache, heap, mprojects, mmu, policy, rf, rd,
                 installed>>
  /\ UNCHANGED <<hvars, xvars>>

\* the compose invocation fails: the error is returned, no targeted refresh
OpComposeFails ==
  /\ op.pc = "compose"
  /\ op' = [op EXCEPT !.pc = "done", !.invoked = TRUE, !.result = "failed"]
  /\ UNCHANGED <<fs, fsEvents, cache, heap, mprojects, mmu, daemon, policy,
                 rf, rd, installed>>
  /\ UNCHANGED <<hvars, xvars>>

\* refreshProject, line 367; of the snapshot only the containers of the
\* project's own compose name are read afterwards, so only these are kept
OpRefreshFetch ==
  /\ op.pc = "fetch"
  /\ op' = [op EXCEPT !.pc = "apply",
                      !.ctrs = GetContainersByComposeProject[
                                 GetComposeProjectName(
                                   heap[op.ptr].ComposeFilePath)]]
  /\ UNCHANGED <<fs, fsEvents, cache, heap, mprojects, mmu, daemon, policy,
                 rf, rd, installed>>
  /\ UNCHANGED <<hvars, xvars>>

OpRefreshFetchFails ==
  /\ op.pc = "fetch"
  /\ op' = [op EXCEPT !.pc = "done", !.result = "failed"]
  /\ UNCHANGED <<fs, fsEvents, cache, heap, mprojects, mmu, daemon, policy,
                 rf, rd, installed>>
  /\ UNCHANGED <<hvars, xvars>>

\* lines 379-387: what refreshProject writes into the entry (protection is
\* not evaluated again)
refreshProjectReevaluating(proj, containers) ==
  applyProtection(AttachContainers(proj, [n \in ComposeNames |-> containers]))

refreshProject(proj, containers) ==
  AttachContainers(proj, [n \in ComposeNames |-> containers])

\* refreshProject, lines 372-390, under the write lock
OpRefreshApply ==
  /\ op.pc = "apply"
  /\ MLockFree
  /\ heap' = IF InMap(op.id)
             THEN [heap EXCEPT ![mprojects[op.id]] =
                                  refreshProject(@, op.ctrs)]
             ELSE heap
  /\ op' = [op EXCEPT !.pc = "done", !.refreshed = TRUE, !.result = "ok"]
  /\ UNCHANGED <<fs, fsEvents, cache, mprojects, mmu, daemon, policy, rf, rd,
                 installed>>
  /\ UNCHANGED <<hvars, xvars>>

OpReturn ==
  /\ op.pc = "done"
  /\ op' = IdleOp
  /\ UNCHANGED <<fs, fsEvents, cache, heap, mprojects, mmu, daemon, policy,
                 rf, rd, installed>>
  /\ UNCHANGED <<hvars, xvars>>

(***************************************************************************)
(* The manager after NewManager, and its steps.                            *)
(***************************************************************************)
\* everything but the protection policy, which NewManager is given
InitManagerState ==
  /\ fs = [f \in Files |->
            [content |-> IF f = Sibling THEN "none" ELSE "svcA", mtime |-> 0]]
  /\ fsEvents = 0
  /\ cache = [f \in Files |-> NoCache]
  /\ heap = <<>>
  /\ mprojects = EmptyMap
  /\ mmu = [w |-> NoHolder, r |-> {}]
  /\ daemon = [c \in ContainerIDs |-> "running"]
  /\ rf = [g \in Refreshers |-> IdleRefresh]
  /\ op = IdleOp
  /\ rd = IdleReader
  /\ installed = EmptyMap

\* the manager of a configuration without protected paths
InitManager == InitManagerState /\ policy = {}

\* refresh passes of both callers, while the files are written, the
\* protection is set and cleared, and the map is read
NextRefresh ==
  \/ \E c \in Contents, bump \in BOOLEAN : EditFile(Edited, c, bump)
  \/ \E g \in Refreshers : ScanWalk(g)
  \/ \E g \in Refreshers : ScanParse(g)
  \/ \E g \in Refreshers : RefreshGetContainers(g)
  \/ \E g \in Refreshers : RefreshGetContainersFails(g)
  \/ \E g \in Refreshers : RefreshLock(g)
  \/ \E g \in Refreshers : RefreshStep(g)
  \/ \E g \in Refreshers : RefreshCommit(g)
  \/ ReadBegin
  \/ ReadEnd
  \/ \E id \in ProjectIDs, b \in BOOLEAN :
       SetProjectProtection(id, b, ProtectionUserMarked)

\* lifecycle calls, while the periodic scanner refreshes, the protection is
\* set and cleared, and containers exit
NextLifecycle ==
  \/ ContainerExit("c1")
  \/ ScanWalk("periodic")
  \/ ScanParse("periodic")
  \/ RefreshGetContainers("periodic")
  \/ RefreshLock("periodic")
  \/ RefreshStep("periodic")
  \/ RefreshCommit("periodic")
  \/ \E id \in ProjectIDs, b \in BOOLEAN :
       SetProjectProtection(id, b, ProtectionUserMarked)
  \/ \E k \in OpKinds, id \in ProjectIDs, force \in BOOLEAN :
       OpCall(k, id, force)
  \/ OpGetProject
  \/ OpCheck
  \/ OpCompose
  \/ OpComposeFails
  \/ OpRefreshFetch
  \/ OpRefreshFetchFails
  \/ OpRefreshApply
  \/ OpReturn

\* scans of both callers of Refresh (the listing of the containers fails,
\* so the pass ends after the scan), while the files are written and the
\* roots come and go
NextScanner ==
  \/ \E c \in Contents, bump \in BOOLEAN : EditFile(Edited, c, bump)
  \/ \E r \in Roots : RootLost(r)
  \/ \E r \in Roots : RootBack(r)
  \/ \E g \in Refreshers : ScanWalk(g)
  \/ \E g \in Refreshers : ScanParse(g)
  \/ \E g \in Refreshers : RefreshGetContainersFails(g)

\* display names and hidden flags are set while the periodic scanner
\* refreshes
NextPrefs ==
  \/ \E id \in ProjectIDs, name \in DisplayNames, o \in StoreOutcomes :
       SetProjectDisplayName(id, name, o)
  \/ \E id \in ProjectIDs, hidden \in BOOLEAN, o \in StoreOutcomes :
       SetProjectHidden(id, hidden, o)
  \/ ScanWalk("periodic")
  \/ ScanParse("periodic")
  \/ RefreshGetContainers("periodic")
  \/ RefreshLock("periodic")
  \/ RefreshStep("periodic")
  \/ RefreshCommit("periodic")

\* a second YAML file of directory d1 is written while the periodic scanner
\* refreshes, projects are started and a container exits
NextSameDir ==
  \/ \E c \in Contents, bump \in BOOLEAN : EditFile(Sibling, c, bump)
  \/ ContainerExit("c1")
  \/ ScanWalk("periodic")
  \/ ScanParse("periodic")
  \/ RefreshGetContainers("periodic")
  \/ RefreshLock("periodic")
  \/ RefreshStep("periodic")
  \/ RefreshCommit("periodic")
  \/ \E id \in ProjectIDs : OpCall("start", id, FALSE)
  \/ OpGetProject
  \/ OpCheck
  \/ OpCompose
  \/ OpRefreshFetch
  \/ OpRefreshApply
  \/ OpReturn

\* projects are marked protected while the periodic scanner refreshes, a
\* root disappears and comes back, and a compose file is rewritten
NextReappear ==
  \/ \E c \in Contents, bump \in BOOLEAN : EditFile(Edited, c, bump)
  \/ \E r \in Roots : RootLost(r)
  \/ \E r \in Roots : RootBack(r)
  \/ ScanWalk("periodic")
  \/ ScanParse("periodic")
  \/ RefreshGetContainers("periodic")
  \/ RefreshLock("periodic")
  \/ RefreshStep("periodic")
  \/ RefreshCommit("periodic")
  \/ \E id \in ProjectIDs :
       SetProjectProtection(id, TRUE, ProtectionUserMarked)

(***************************************************************************)
(* The websocket hub.                                                      *)
(***************************************************************************)
Clients == {"k1", "k2"}

HubProjects == {"X", "Y"}

\* the client that sends subscribe and unsubscribe envelopes
Subscriber == "k1"

\* Message.ProjectID of a message that carries no project scope
NoScope == ""

\* a marshalled message, as far as the hub looks at it: its project scope
Message(pid) == [pid |-> pid]

NoMsg == Message("-")

\* rem: the clients the range has yet to produce; got: the clients the
\* message was enqueued to
IdleLoop == [pc |-> "idle", msg |-> NoMsg, rem |-> {}, got |-> {}, c |-> "k1"]

\* full: the clients of the range whose queue was found full
IdleBS ==
  [pc |-> "idle", msg |-> NoMsg, pid |-> "Y", rem |-> {}, full |-> {}]

IdleStats == [pc |-> "wait"]

HLockFree == hmu.w = NoHolder /\ hmu.r = {}

HCanRLock == hmu.w = NoHolder

\* Client.IsSubscribed: the empty set means every project
IsSubscribedIgnoringSet(c, pid) == TRUE

IsSubscribed(c, pid) ==
  IF Cardinality(subs[c]) = 0 THEN TRUE ELSE pid \in subs[c]

(***************************************************************************)
(* Connections: HandleWebSocket, ReadPump, WritePump, handleMessage.       *)
(***************************************************************************)
\* HandleWebSocket: NewClient, then Hub.Register blocks on h.register
ConnOpen(c) ==
  /\ cpc[c] = "new"
  /\ cpc' = [cpc EXCEPT ![c] = "registering"]
  /\ UNCHANGED <<hclients, hmu, hbroadcast, send, closed, subs, lp, bs, ss,
                 ctxDone, panicked>>
  /\ ~panicked
  /\ UNCHANGED <<mvars, xvars>>

\* ReadPump: the read fails, the deferred Hub.Unregister blocks on h.unregister
ConnReadFails(c) ==
  /\ cpc[c] = "active"
  /\ cpc' = [cpc EXCEPT ![c] = "unregistering"]
  /\ UNCHANGED <<hclients, hmu, hbroadcast, send, closed, subs, lp, bs, ss,
                 ctxDone, panicked>>
  /\ ~panicked
  /\ UNCHANGED <<mvars, xvars>>

\* WritePump takes the next message off the send channel
WritePumpReceive(c) ==
  /\ cpc[c] \in {"active", "unregistering", "gone"}
  /\ send[c] # <<>>
  /\ send' = [send EXCEPT ![c] = Tail(@)]
  /\ UNCHANGED <<hclients, hmu, hbroadcast, closed, subs, cpc, lp, bs, ss,
                 ctxDone, panicked>>
  /\ ~panicked
  /\ UNCHANGED <<mvars, xvars>>

\* handleMessage: a subscribe payload is one identifier or a list of them,
\* an unsubscribe payload is acted on only when it is one identifier
handleMessageIgnoringUnsubscribe(c, type, single, ids) ==
  IF type = "subscribe" THEN subs[c] \cup ids ELSE subs[c]

handleMessage(c, type, single, ids) ==
  IF type = "subscribe"
  THEN subs[c] \cup ids
  ELSE IF single THEN subs[c] \ ids ELSE subs[c]

\* ReadPump reads one envelope and handles it
ClientMessage(c, type, single, ids) ==
  /\ cpc[c] = "active"
  /\ single => Cardinality(ids) = 1
  /\ subs' = [subs EXCEPT ![c] = handleMessage(c, type, single, ids)]
  /\ UNCHANGED <<hclients, hmu, hbroadcast, send, closed, cpc, lp, bs, ss,
                 ctxDone, panicked>>
  /\ ~panicked
  /\ UNCHANGED <<mvars, xvars>>

\* ReadPump, lines 60-70: an envelope is read from the connection
ReadPumpRead(c, type, single, ids) ==
  /\ cpc[c] = "active"
  /\ input = <<>>
  /\ single => Cardinality(ids) = 1
  /\ input' = <<[c |-> c, type |-> type, single |-> single, ids |-> ids]>>
  /\ ~panicked
  /\ UNCHANGED <<mvars, hvars, roots, store, prefcall, output, lvars>>

\* ReadPump, line 71: handleMessage on the envelope read; output keeps the
\* envelope handled last, with the subscriptions and the length of the send
\* queue it found (history)
ReadPumpHandle ==
  /\ input # <<>>
  /\ LET e == input[1]
     IN /\ subs' = [subs EXCEPT ![e.c] =
                                  handleMessage(e.c, e.type, e.single, e.ids)]
        /\ output' = <<[c |-> e.c, type |-> e.type, single |-> e.single,
                        ids |-> e.ids, before |-> subs[e.c],
                        queued |-> Len(send[e.c])]>>
  /\ input' = <<>>
  /\ UNCHANGED <<hclients, hmu, hbroadcast, send, closed, cpc, lp, bs, ss,
                 ctxDone, panicked>>
  /\ ~panicked
  /\ UNCHANGED <<mvars, roots, store, prefcall, lvars>>

(***************************************************************************)
(* Hub.Run, the event loop.                                                *)
(***************************************************************************)
CtxCancel ==
  /\ ~ctxDone
  /\ ctxDone' = TRUE
  /\ UNCHANGED <<hclients, hmu, hbroadcast, send, closed, subs, cpc, lp, bs,
                 ss, panicked>>
  /\ ~panicked
  /\ UNCHANGED <<mvars, xvars>>

\* case <-ctx.Done()
RunCtxDone ==
  /\ lp.pc = "idle"
  /\ ctxDone
  /\ lp' = [lp EXCEPT !.pc = "stop"]
  /\ UNCHANGED <<hclients, hmu, hbroadcast, send, closed, subs, cpc, bs, ss,
                 ctxDone, panicked>>
  /\ ~panicked
  /\ UNCHANGED <<mvars, xvars>>

\* case client := <-h.register: the blocked Register call returns
RunRecvRegister(c) ==
  /\ lp.pc = "idle"
  /\ cpc[c] = "registering"
  /\ cpc' = [cpc EXCEPT ![c] = "active"]
  /\ lp' = [lp EXCEPT !.pc = "reg", !.c = c]
  /\ UNCHANGED <<hclients, hmu, hbroadcast, send, closed, subs, bs, ss,
                 ctxDone, panicked>>
  /\ ~panicked
  /\ UNCHANGED <<mvars, xvars>>

\* case client := <-h.unregister: the blocked Unregister call returns
RunRecvUnregister(c) ==
  /\ lp.pc = "idle"
  /\ cpc[c] = "unregistering"
  /\ cpc' = [cpc EXCEPT ![c] = "gone"]
  /\ lp' = [lp EXCEPT !.pc = "unreg", !.c = c]
  /\ UNCHANGED <<hclients, hmu, hbroadcast, send, closed, subs, bs, ss,
                 ctxDone, panicked>>
  /\ ~panicked
  /\ UNCHANGED <<mvars, xvars>>

\* case message := <-h.broadcast
RunRecvBroadcast ==
  /\ lp.pc = "idle"
  /\ hbroadcast # <<>>
  /\ hbroadcast' = Tail(hbroadcast)
  /\ lp' = [lp EXCEPT !.pc = "bwait", !.msg = Head(hbroadcast)]
  /\ UNCHANGED <<hclients, hmu, send, closed, subs, cpc, bs, ss, ctxDone,
                 panicked>>
  /\ ~panicked
  /\ UNCHANGED <<mvars, xvars>>

\* h.mu.Lock() of the ctx.Done, register and unregister cases
RunLock ==
  /\ lp.pc \in {"stop", "reg", "unreg"}
  /\ HLockFree
  /\ hmu' = [hmu EXCEPT !.w = "run"]
  /\ lp' = [lp EXCEPT !.pc = IF lp.pc = "stop" THEN "stopL"
                             ELSE IF lp.pc = "reg" THEN "regL" ELSE "unregL"]
  /\ UNCHANGED <<hclients, hbroadcast, send, closed, subs, cpc, bs, ss,
                 ctxDone, panicked>>
  /\ ~panicked
  /\ UNCHANGED <<mvars, xvars>>

\* lines 43-48: every client is closed and deleted, Run returns
RunShutdown ==
  /\ lp.pc = "stopL"
  /\ closed' = [c \in Clients |-> IF c \in hclients THEN closed[c] + 1
                                  ELSE closed[c]]
  /\ hclients' = {}
  /\ hmu' = [hmu EXCEPT !.w = NoHolder]
  /\ lp' = [lp EXCEPT !.pc = "exited"]
  /\ UNCHANGED <<hbroadcast, send, subs, cpc, bs, ss, ctxDone, panicked>>
  /\ ~panicked
  /\ UNCHANGED <<mvars, xvars>>

\* lines 52-53
RunRegister ==
  /\ lp.pc = "regL"
  /\ hclients' = hclients \cup {lp.c}
  /\ hmu' = [hmu EXCEPT !.w = NoHolder]
  /\ lp' = [lp EXCEPT !.pc = "idle"]
  /\ UNCHANGED <<hbroadcast, send, closed, subs, cpc, bs, ss, ctxDone,
                 panicked>>
  /\ ~panicked
  /\ UNCHANGED <<mvars, xvars>>

\* lines 59-62: <<h.clients, closed>> afterwards; the channel is closed
\* only when the client is still in h.clients
RunOnUnregisterUnchecked(c) ==
  <<hclients \ {c}, [closed EXCEPT ![c] = @ + 1]>>

RunOnUnregister(c) ==
  IF c \in hclients
  THEN <<hclients \ {c}, [closed EXCEPT ![c] = @ + 1]>>
  ELSE <<hclients, closed>>

\* lines 58-63
RunUnregister ==
  /\ lp.pc = "unregL"
  /\ hclients' = RunOnUnregister(lp.c)[1]
  /\ closed' = RunOnUnregister(lp.c)[2]
  /\ hmu' = [hmu EXCEPT !.w = NoHolder]
  /\ lp' = [lp EXCEPT !.pc = "idle"]
  /\ UNCHANGED <<hbroadcast, send, subs, cpc, bs, ss, ctxDone, panicked>>
  /\ ~panicked
  /\ UNCHANGED <<mvars, xvars>>

\* line 70: h.mu.RLock(), then the range over h.clients starts
RunBroadcastRLock ==
  /\ lp.pc = "bwait"
  /\ HCanRLock
  /\ hmu' = [hmu EXCEPT !.r = @ \cup {"run"}]
  /\ lp' = [lp EXCEPT !.pc = "bcast", !.rem = hclients, !.got = {}]
  /\ UNCHANGED <<hclients, hbroadcast, send, closed, subs, cpc, bs, ss,
                 ctxDone, panicked>>
  /\ ~panicked
  /\ UNCHANGED <<mvars, xvars>>

\* lines 74-76, the default branch: <<h.clients, closed>> afterwards
RunOnFullKeeps(c) == <<hclients, closed>>

RunOnFull(c) == <<hclients \ {c}, [closed EXCEPT ![c] = @ + 1]>>

\* lines 72-77 for one client of the range
RunBroadcastSend(c) ==
  /\ lp.pc = "bcast"
  /\ c \in lp.rem
  /\ IF Len(send[c]) < SendCap
     THEN /\ send' = [send EXCEPT ![c] = Append(@, lp.msg)]
          /\ lp' = [lp EXCEPT !.rem = @ \ {c}, !.got = @ \cup {c}]
          /\ UNCHANGED <<hclients, closed>>
     ELSE /\ hclients' = RunOnFull(c)[1]
          /\ closed' = RunOnFull(c)[2]
          /\ lp' = [lp EXCEPT !.rem = @ \ {c}]
          /\ UNCHANGED send
  /\ UNCHANGED <<hmu, hbroadcast, subs, cpc, bs, ss, ctxDone, panicked>>
  /\ ~panicked
  /\ UNCHANGED <<mvars, xvars>>

\* line 79: the range is over, h.mu.RUnlock()
RunBroadcastDone ==
  /\ lp.pc = "bcast"
  /\ lp.rem = {}
  /\ hmu' = [hmu EXCEPT !.r = @ \ {"run"}]
  /\ lp' = [lp EXCEPT !.pc = "idle", !.msg = NoMsg, !.got = {}]
  /\ UNCHANGED <<hclients, hbroadcast, send, closed, subs, cpc, bs, ss,
                 ctxDone, panicked>>
  /\ ~panicked
  /\ UNCHANGED <<mvars, xvars>>

(***************************************************************************)
(* Hub.Broadcast, Hub.BroadcastToSubscribers, Hub.ClientCount and          *)
(* Hub.StartStatsStreamer, called from other goroutines.                   *)
(***************************************************************************)
\* the select of lines 92-96: a non-blocking send, dropped when full
Enqueue(msg) ==
  IF Len(hbroadcast) < BroadcastCap THEN Append(hbroadcast, msg)
  ELSE hbroadcast

\* Hub.Broadcast of a message scoped to project pid
Broadcast(pid) ==
  /\ hbroadcast' = Enqueue(Message(pid))
  /\ hbroadcast' # hbroadcast
  /\ UNCHANGED <<hclients, hmu, send, closed, subs, cpc, lp, bs, ss, ctxDone,
                 panicked>>
  /\ ~panicked
  /\ UNCHANGED <<mvars, xvars>>

\* BroadcastToSubscribers up to the start of the range: h.mu.RLock()
BroadcastToSubscribersBegin(pid, msg) ==
  /\ bs.pc = "idle"
  /\ HCanRLock
  /\ hmu' = [hmu EXCEPT !.r = @ \cup {"bs"}]
  /\ bs' = [pc |-> "range", msg |-> msg, pid |-> pid, rem |-> hclients,
            full |-> {}]
  /\ UNCHANGED <<hclients, hbroadcast, send, closed, subs, cpc, lp, ss,
                 ctxDone, panicked>>
  /\ ~panicked
  /\ UNCHANGED <<mvars, xvars>>

\* lines 112-115, the default branch: <<h.clients, closed>> afterwards
BroadcastToSubscribersOnFullDisconnects(c) ==
  <<hclients \ {c}, [closed EXCEPT ![c] = @ + 1]>>

BroadcastToSubscribersOnFull(c) == <<hclients, closed>>

\* lines 111-116 for one client of the range
BroadcastToSubscribersVisit(c) ==
  /\ bs.pc = "range"
  /\ c \in bs.rem
  /\ IF ~IsSubscribed(c, bs.pid)
     THEN /\ bs' = [bs EXCEPT !.rem = @ \ {c}]
          /\ UNCHANGED <<hclients, send, closed, panicked>>
     ELSE IF closed[c] > 0
     THEN /\ panicked' = TRUE
          /\ bs' = [bs EXCEPT !.rem = @ \ {c}]
          /\ UNCHANGED <<hclients, send, closed>>
     ELSE IF Len(send[c]) < SendCap
     THEN /\ send' = [send EXCEPT ![c] = Append(@, bs.msg)]
          /\ bs' = [bs EXCEPT !.rem = @ \ {c}]
          /\ UNCHANGED <<hclients, closed, panicked>>
     ELSE /\ hclients' = BroadcastToSubscribersOnFull(c)[1]
          /\ closed' = BroadcastToSubscribersOnFull(c)[2]
          /\ bs' = [bs EXCEPT !.rem = @ \ {c}, !.full = @ \cup {c}]
          /\ UNCHANGED <<send, panicked>>
  /\ UNCHANGED <<hmu, hbroadcast, subs, cpc, lp, ss, ctxDone>>
  /\ ~panicked
  /\ UNCHANGED <<mvars, xvars>>

\* the range does not produce a client that Run deleted from h.clients
\* after the range began (one outcome of the unsynchronised delete)
BroadcastToSubscribersSkip(c) ==
  /\ bs.pc = "range"
  /\ c \in bs.rem
  /\ c \notin hclients
  /\ bs' = [bs EXCEPT !.rem = @ \ {c}]
  /\ UNCHANGED <<hclients, hmu, hbroadcast, send, closed, subs, cpc, lp, ss,
                 ctxDone, panicked>>
  /\ ~panicked
  /\ UNCHANGED <<mvars, xvars>>

\* the range is over, the deferred h.mu.RUnlock()
BroadcastToSubscribersEnd ==
  /\ bs.pc = "range"
  /\ bs.rem = {}
  /\ hmu' = [hmu EXCEPT !.r = @ \ {"bs"}]
  /\ bs' = IdleBS
  /\ UNCHANGED <<hclients, hbroadcast, send, closed, subs, cpc, lp, ss,
                 ctxDone, panicked>>
  /\ ~panicked
  /\ UNCHANGED <<mvars, xvars>>

\* StartStatsStreamer, a tick: ClientCount takes the read lock
StatsTick ==
  /\ ss.pc = "wait"
  /\ ~ctxDone
  /\ HCanRLock
  /\ hmu' = [hmu EXCEPT !.r = @ \cup {"stats"}]
  /\ ss' = [ss EXCEPT !.pc = "count"]
  /\ UNCHANGED <<hclients, hbroadcast, send, closed, subs, cpc, lp, bs,
                 ctxDone, panicked>>
  /\ ~panicked
  /\ UNCHANGED <<mvars, xvars>>

\* ClientCount: len(h.clients), RUnlock; line 150: with no client
\* connected the tick is over
ClientCount ==
  /\ ss.pc = "count"
  /\ hmu' = [hmu EXCEPT !.r = @ \ {"stats"}]
  /\ ss' = [pc |-> IF Cardinality(hclients) = 0 THEN "wait" ELSE "send"]
  /\ UNCHANGED <<hclients, hbroadcast, send, closed, subs, cpc, lp, bs,
                 ctxDone, panicked>>
  /\ ~panicked
  /\ UNCHANGED <<mvars, xvars>>

\* lines 154-163: the combined stats message is handed to Hub.Broadcast
StatsBroadcast ==
  /\ ss.pc = "send"
  /\ ss' = IdleStats
  /\ hbroadcast' = Enqueue(Message(NoScope))
  /\ UNCHANGED <<hclients, hmu, send, closed, subs, cpc, lp, bs, ctxDone,
                 panicked>>
  /\ ~panicked
  /\ UNCHANGED <<mvars, xvars>>

InitHub ==
  /\ hclients = {}
  /\ hmu = [w |-> NoHolder, r |-> {}]
  /\ hbroadcast = <<>>
  /\ send = [c \in Clients |-> <<>>]
  /\ closed = [c \in Clients |-> 0]
  /\ subs = [c \in Clients |-> {}]
  /\ cpc = [c \in Clients |-> "new"]
  /\ lp = IdleLoop
  /\ bs = IdleBS
  /\ ss = IdleStats
  /\ ctxDone = FALSE
  /\ panicked = FALSE

\* the steps of the Run goroutine
RunStep ==
  \/ RunCtxDone
  \/ \E c \in Clients : RunRecvRegister(c)
  \/ \E c \in Clients : RunRecvUnregister(c)
  \/ RunRecvBroadcast
  \/ RunLock
  \/ RunShutdown
  \/ RunRegister
  \/ RunUnregister
  \/ RunBroadcastRLock
  \/ \E c \in Clients : RunBroadcastSend(c)
  \/ RunBroadcastDone

\* connections come and go, the context may be cancelled; no client
\* subscribes, so the messages carry no project scope
NextHub ==
  \/ RunStep
  \/ \E c \in Clients : ConnOpen(c)
  \/ \E c \in Clients : ConnReadFails(c)
  \/ \E c \in Clients : WritePumpReceive(c)
  \/ CtxCancel
  \/ Broadcast(NoScope)
  \/ BroadcastToSubscribersBegin("Y", Message(NoScope))
  \/ \E c \in Clients : BroadcastToSubscribersVisit(c)
  \/ \E c \in Clients : BroadcastToSubscribersSkip(c)
  \/ BroadcastToSubscribersEnd
  \/ StatsTick
  \/ ClientCount
  \/ StatsBroadcast

\* passes of the periodic scanner that complete or fail, while a compose
\* file is rewritten, a project is marked and a container exits
NextFailing ==
  \/ \E c \in Contents, bump \in BOOLEAN : EditFile(Edited, c, bump)
  \/ ContainerExit("c1")
  \/ ScanWalk("periodic")
  \/ ScanParse("periodic")
  \/ ScanCancelled("periodic")
  \/ RefreshGetContainers("periodic")
  \/ RefreshGetContainersFails("periodic")
  \/ RefreshLock("periodic")
  \/ RefreshStep("periodic")
  \/ RefreshCommit("periodic")
  \/ \E id \in ProjectIDs, b \in BOOLEAN :
       SetProjectProtection(id, b, ProtectionUserMarked)

\* connections come and go and messages are broadcast while the context of
\* Run may be cancelled
NextShutdown ==
  \/ RunStep
  \/ \E c \in Clients : ConnOpen(c)
  \/ \E c \in Clients : ConnReadFails(c)
  \/ \E c \in Clients : WritePumpReceive(c)
  \/ CtxCancel
  \/ Broadcast(NoScope)

\* the Run goroutine keeps running, and its select does not pass over a
\* Register or an Unregister that is waiting again and again
FairRun ==
  /\ WF_vars(RunStep)
  /\ \A c \in Clients :
       SF_vars(RunRecvRegister(c)) /\ SF_vars(RunRecvUnregister(c))

\* one client subscribes to and unsubscribes from X and Y while messages
\* scoped to X go through Hub.Broadcast and messages scoped to Y through
\* Hub.BroadcastToSubscribers
NextSubs ==
  \/ \E c \in Clients : ConnOpen(c)
  \/ \E c \in Clients : RunRecvRegister(c)
  \/ RunLock
  \/ RunRegister
  \/ RunRecvBroadcast
  \/ RunBroadcastRLock
  \/ \E c \in Clients : RunBroadcastSend(c)
  \/ RunBroadcastDone
  \/ \E c \in Clients : WritePumpReceive(c)
  \/ \E t \in {"subscribe", "unsubscribe"}, single \in BOOLEAN,
       ids \in SUBSET HubProjects :
       ClientMessage(Subscriber, t, single, ids)
  \/ Broadcast("X")
  \/ BroadcastToSubscribersBegin("Y", Message("Y"))
  \/ \E c \in Clients : BroadcastToSubscribersVisit(c)
  \/ \E c \in Clients : BroadcastToSubscribersSkip(c)
  \/ BroadcastToSubscribersEnd

\* one client sends subscribe and unsubscribe envelopes while messages
\* scoped to Y go through Hub.BroadcastToSubscribers
NextEnvelopes ==
  \/ \E c \in Clients : ConnOpen(c)
  \/ \E c \in Clients : RunRecvRegister(c)
  \/ RunLock
  \/ RunRegister
  \/ \E t \in {"subscribe", "unsubscribe"}, single \in BOOLEAN,
       ids \in SUBSET HubProjects :
       ReadPumpRead(Subscriber, t, single, ids)
  \/ ReadPumpHandle
  \/ BroadcastToSubscribersBegin("Y", Message("Y"))
  \/ \E c \in Clients : BroadcastToSubscribersVisit(c)
  \/ BroadcastToSubscribersEnd
  \/ \E c \in Clients : WritePumpReceive(c)

(***************************************************************************)
(* Client.StreamLogs on a container without TTY: streamMultiplexedLogs.    *)
(***************************************************************************)
LogStreams == {"stdout", "stderr"}

\* the call has reached streamMultiplexedLogs: the StdCopy goroutine and the
\* two forwarders run, the caller of streamMultiplexedLogs waits
\*   frames: frames read from the reader so far
\*   copy: position of the StdCopy goroutine
\*   pipe: the two io.Pipes (a write blocks until its data is read)
\*   fwd: position of the two forwarders
\*   main: position of the goroutine of StreamLogs
\*   queued, chClosed: the output channels
StartedLogs ==
  [frames |-> 0, copy |-> "copy",
   pipe |-> [s \in LogStreams |-> "empty"],
   fwd |-> [s \in LogStreams |-> "read"],
   main |-> "wait", readerClosed |-> FALSE,
   queued |-> [s \in LogStreams |-> 0],
   chClosed |-> [s \in LogStreams |-> FALSE],
   cancelled |-> FALSE, panic |-> FALSE]

\* stdcopy.StdCopy reads a frame of stream s and writes it to the pipe of s
LogsDemux(s) ==
  /\ ~logs.panic
  /\ logs.copy = "copy"
  /\ ~logs.readerClosed
  /\ logs.frames < MaxFrames
  /\ \A t \in LogStreams : logs.pipe[t] = "empty"
  /\ logs' = [logs EXCEPT !.frames = @ + 1, !.pipe[s] = "data"]
  /\ UNCHANGED <<mvars, hvars, roots, store, prefcall, input, output, gs, stream>>

\* StdCopy returns (end of the stream, or the reader was closed); the
\* deferred stderrPW.Close() runs first
LogsCopyReturns ==
  /\ ~logs.panic
  /\ logs.copy = "copy"
  /\ \A t \in LogStreams : logs.pipe[t] # "data"
  /\ logs' = [logs EXCEPT !.copy = "closeStdout", !.pipe["stderr"] = "closed"]
  /\ UNCHANGED <<mvars, hvars, roots, store, prefcall, input, output, gs, stream>>

\* the deferred stdoutPW.Close()
LogsCloseStdoutPipe ==
  /\ ~logs.panic
  /\ logs.copy = "closeStdout"
  /\ logs' = [logs EXCEPT !.copy = "done", !.pipe["stdout"] = "closed"]
  /\ UNCHANGED <<mvars, hvars, roots, store, prefcall, input, output, gs, stream>>

\* the forwarder of s reads a chunk: n > 0
LogsRead(s) ==
  /\ ~logs.panic
  /\ logs.fwd[s] = "read"
  /\ logs.pipe[s] = "data"
  /\ logs' = [logs EXCEPT !.pipe[s] = "empty", !.fwd[s] = "hold"]
  /\ UNCHANGED <<mvars, hvars, roots, store, prefcall, input, output, gs, stream>>

\* the forwarder of s reads the end of its pipe and returns (the stderr
\* forwarder closes done)
LogsReadEOF(s) ==
  /\ ~logs.panic
  /\ logs.fwd[s] = "read"
  /\ logs.pipe[s] = "closed"
  /\ logs' = [logs EXCEPT !.fwd[s] = "done"]
  /\ UNCHANGED <<mvars, hvars, roots, store, prefcall, input, output, gs, stream>>

\* the send case of the forwarder's select: a send on a closed channel
\* panics, a send on a full channel blocks
LogsSend(s) ==
  /\ ~logs.panic
  /\ logs.fwd[s] = "hold"
  /\ logs.chClosed[s] \/ logs.queued[s] < LogCap
  /\ logs' = IF logs.chClosed[s]
             THEN [logs EXCEPT !.panic = TRUE, !.fwd[s] = "done"]
             ELSE [logs EXCEPT !.queued[s] = @ + 1, !.fwd[s] = "read"]
  /\ UNCHANGED <<mvars, hvars, roots, store, prefcall, input, output, gs, stream>>

\* the ctx.Done() case of the forwarder's select
LogsSendCancelled(s) ==
  /\ ~logs.panic
  /\ logs.fwd[s] = "hold"
  /\ logs.cancelled
  /\ logs' = [logs EXCEPT !.fwd[s] = "done"]
  /\ UNCHANGED <<mvars, hvars, roots, store, prefcall, input, output, gs, stream>>

\* the consumer receives from the output channel of s
LogsConsume(s) ==
  /\ ~logs.panic
  /\ logs.queued[s] > 0
  /\ logs' = [logs EXCEPT !.queued[s] = @ - 1]
  /\ UNCHANGED <<mvars, hvars, roots, store, prefcall, input, output, gs, stream>>

\* the caller cancels the context
LogsCancel ==
  /\ ~logs.panic
  /\ ~logs.cancelled
  /\ logs' = [logs EXCEPT !.cancelled = TRUE]
  /\ UNCHANGED <<mvars, hvars, roots, store, prefcall, input, output, gs, stream>>

\* lines 224-227: streamMultiplexedLogs returns on ctx.Done() or done
LogsReturn ==
  /\ ~logs.panic
  /\ logs.main = "wait"
  /\ logs.cancelled \/ logs.fwd["stderr"] = "done"
  /\ logs' = [logs EXCEPT !.main = "closeReader"]
  /\ UNCHANGED <<mvars, hvars, roots, store, prefcall, input, output, gs, stream>>

\* the deferred calls of the goroutine of StreamLogs, last registered
\* first: reader.Close(), close(errCh), close(stderrCh), close(stdoutCh)
LogsCloseReader ==
  /\ ~logs.panic
  /\ logs.main = "closeReader"
  /\ logs' = [logs EXCEPT !.main = "closeStderr", !.readerClosed = TRUE]
  /\ UNCHANGED <<mvars, hvars, roots, store, prefcall, input, output, gs, stream>>

LogsCloseStderrCh ==
  /\ ~logs.panic
  /\ logs.main = "closeStderr"
  /\ logs' = [logs EXCEPT !.main = "closeStdout", !.chClosed["stderr"] = TRUE]
  /\ UNCHANGED <<mvars, hvars, roots, store, prefcall, input, output, gs, stream>>

LogsCloseStdoutCh ==
  /\ ~logs.panic
  /\ logs.main = "closeStdout"
  /\ logs' = [logs EXCEPT !.main = "returned", !.chClosed["stdout"] = TRUE]
  /\ UNCHANGED <<mvars, hvars, roots, store, prefcall, input, output, gs, stream>>

NextLogs ==
  \/ \E s \in LogStreams : LogsDemux(s)
  \/ LogsCopyReturns
  \/ LogsCloseStdoutPipe
  \/ \E s \in LogStreams : LogsRead(s)
  \/ \E s \in LogStreams : LogsReadEOF(s)
  \/ \E s \in LogStreams : LogsSend(s)
  \/ \E s \in LogStreams : LogsSendCancelled(s)
  \/ \E s \in LogStreams : LogsConsume(s)
  \/ LogsCancel
  \/ LogsReturn
  \/ LogsCloseReader
  \/ LogsCloseStderrCh
  \/ LogsCloseStdoutCh

\* every goroutine of the stream that can take a step takes it in the end;
\* nothing is asked of the caller, who may stop receiving and need not cancel
FairLogs ==
  /\ WF_vars(LogsCopyReturns) /\ WF_vars(LogsCloseStdoutPipe)
  /\ \A s \in LogStreams :
       /\ WF_vars(LogsDemux(s))
       /\ WF_vars(LogsRead(s)) /\ WF_vars(LogsReadEOF(s))
       /\ WF_vars(LogsSend(s) \/ LogsSendCancelled(s))
  /\ WF_vars(LogsReturn) /\ WF_vars(LogsCloseReader)
  /\ WF_vars(LogsCloseStderrCh) /\ WF_vars(LogsCloseStdoutCh)

(***************************************************************************)
(* StatsCollector.GetStats, called concurrently for one container.         *)
(***************************************************************************)
StatCallers == {"s1", "s2", "s3"}

\* samples are named by the order in which the daemon produced them;
\* 0 stands for no sample
\*   fetched: number of samples produced so far
\*   prev: s.prevStats[containerID]
\*   call: each caller's position, its sample and the baseline it took
\*   sinceClear: the samples stored since the table was last empty (history)
StartedStats ==
  [fetched |-> 0, prev |-> 0, sinceClear |-> 0,
   call |-> [g \in StatCallers |-> [pc |-> "idle", curr |-> 0, prev |-> 0]]]

\* lines 45-54: the sample is fetched and decoded, outside the lock
GetStatsFetch(g) ==
  /\ gs.call[g].pc = "idle"
  /\ gs.fetched < MaxFetches
  /\ gs' = [gs EXCEPT !.fetched = @ + 1,
                      !.call[g] = [pc |-> "fetched", curr |-> gs.fetched + 1,
                                   prev |-> 0]]
  /\ UNCHANGED <<mvars, hvars, roots, store, prefcall, input, output, logs, stream>>

\* lines 56-59, under s.mu
GetStatsSwap(g) ==
  /\ gs.call[g].pc = "fetched"
  /\ gs' = [gs EXCEPT !.prev = gs.call[g].curr,
                      !.sinceClear = @ + 1,
                      !.call[g].pc = "swapped",
                      !.call[g].prev = gs.prev]
  /\ UNCHANGED <<mvars, hvars, roots, store, prefcall, input, output, logs, stream>>

\* lines 45-54: s.prevStats[containerID] after the fetch or the decoding
\* failed
BaselineOnFailureCleared == StartedStats.prev

BaselineOnFailure == gs.prev

\* lines 46-48 and 52-54: the fetch or the decoding fails, the error is
\* returned
GetStatsFetchFails(g) ==
  /\ gs.call[g].pc = "idle"
  /\ gs' = [gs EXCEPT !.prev = BaselineOnFailure,
                      !.call[g].pc = "failed"]
  /\ UNCHANGED <<mvars, hvars, roots, store, prefcall, input, output, logs, stream>>

\* ClearPreviousStats, lines 201-205
ClearPreviousStats ==
  /\ gs.prev # 0
  /\ gs' = [gs EXCEPT !.prev = 0, !.sinceClear = 0]
  /\ UNCHANGED <<mvars, hvars, roots, store, prefcall, input, output, logs, stream>>

\* line 61: calculateStats(prev, &stats) is returned (or the error)
GetStatsReturn(g) ==
  /\ gs.call[g].pc \in {"swapped", "failed"}
  /\ gs' = [gs EXCEPT !.call[g] = [pc |-> "idle", curr |-> 0, prev |-> 0]]
  /\ UNCHANGED <<mvars, hvars, roots, store, prefcall, input, output, logs, stream>>

NextGetStats ==
  \/ \E g \in StatCallers : GetStatsFetch(g)
  \/ \E g \in StatCallers : GetStatsSwap(g)
  \/ \E g \in StatCallers : GetStatsReturn(g)

(***************************************************************************)
(* StatsCollector.StreamStats: the producer goroutine and its consumer.    *)
(***************************************************************************)
\* how a read of the feed can end: a sample, a clean end of the stream,
\* bytes that do not decode, or the read given up because the context of
\* the request was cancelled
DecodeOutcomes == {"sample", "eof", "malformed", "aborted"}

\* the goroutine has been started
\*   samples: the samples decoded so far
\*   queued: the errors in errCh (capacity 1); carried: those received
\*   delivered: the samples the consumer received from statsCh
\*   end: why the producer left its loop
StartedStream ==
  [pc |-> "connect", cancelled |-> FALSE, samples |-> 0, delivered |-> 0,
   queued |-> 0, carried |-> 0, end |-> "none",
   errClosed |-> FALSE, statsClosed |-> FALSE]

\* the caller cancels the context
StreamCancel ==
  /\ ~stream.cancelled
  /\ stream' = [stream EXCEPT !.cancelled = TRUE]
  /\ UNCHANGED <<mvars, hvars, roots, store, prefcall, input, output, logs,
                 gs>>

\* line 81: cli.ContainerStats succeeds
StreamConnect ==
  /\ stream.pc = "connect"
  /\ stream' = [stream EXCEPT !.pc = "check"]
  /\ UNCHANGED <<mvars, hvars, roots, store, prefcall, input, output, logs,
                 gs>>

\* lines 82-85: cli.ContainerStats fails, the error is sent
StreamConnectFails ==
  /\ stream.pc = "connect"
  /\ stream' = [stream EXCEPT !.pc = "closeErr", !.queued = @ + 1,
                              !.end = "connect"]
  /\ UNCHANGED <<mvars, hvars, roots, store, prefcall, input, output, logs,
                 gs>>

\* lines 92-96: the non-blocking look at ctx.Done()
StreamCheck ==
  /\ stream.pc = "check"
  /\ stream' = IF stream.cancelled
               THEN [stream EXCEPT !.pc = "closeErr", !.end = "cancelled"]
               ELSE [stream EXCEPT !.pc = "decode"]
  /\ UNCHANGED <<mvars, hvars, roots, store, prefcall, input, output, logs,
                 gs>>

\* lines 99-105: the error of Decode is sent on errCh unless it is io.EOF
ErrorReported(outcome) == outcome \in {"malformed", "aborted"}

\* lines 98-108: decoder.Decode returns
StreamDecode(outcome) ==
  /\ stream.pc = "decode"
  /\ outcome = "sample" => stream.samples < MaxSamples
  /\ outcome = "aborted" => stream.cancelled
  /\ stream' = IF outcome = "sample"
               THEN [stream EXCEPT !.pc = "send", !.samples = @ + 1]
               ELSE [stream EXCEPT !.pc = "closeErr", !.end = outcome,
                                   !.queued = IF ErrorReported(outcome)
                                              THEN @ + 1 ELSE @]
  /\ UNCHANGED <<mvars, hvars, roots, store, prefcall, input, output, logs,
                 gs>>

\* lines 110-111: the consumer receives the sample from statsCh
StreamSend ==
  /\ stream.pc = "send"
  /\ stream' = [stream EXCEPT !.pc = "check", !.delivered = @ + 1]
  /\ UNCHANGED <<mvars, hvars, roots, store, prefcall, input, output, logs,
                 gs>>

\* lines 112-113: the ctx.Done() case of the select
StreamSendCancelled ==
  /\ stream.pc = "send"
  /\ stream.cancelled
  /\ stream' = [stream EXCEPT !.pc = "closeErr", !.end = "cancelled"]
  /\ UNCHANGED <<mvars, hvars, roots, store, prefcall, input, output, logs,
                 gs>>

\* the deferred calls, last registered first: resp.Body.Close(),
\* close(errCh), close(statsCh)
StreamCloseErrCh ==
  /\ stream.pc = "closeErr"
  /\ stream' = [stream EXCEPT !.pc = "closeStats", !.errClosed = TRUE]
  /\ UNCHANGED <<mvars, hvars, roots, store, prefcall, input, output, logs,
                 gs>>

StreamCloseStatsCh ==
  /\ stream.pc = "closeStats"
  /\ stream' = [stream EXCEPT !.pc = "ended", !.statsClosed = TRUE]
  /\ UNCHANGED <<mvars, hvars, roots, store, prefcall, input, output, logs,
                 gs>>

\* the consumer receives an error from errCh
StreamReceiveError ==
  /\ stream.queued > 0
  /\ stream' = [stream EXCEPT !.queued = @ - 1, !.carried = @ + 1]
  /\ UNCHANGED <<mvars, hvars, roots, store, prefcall, input, output, logs,
                 gs>>

NextStream ==
  \/ StreamCancel
  \/ StreamConnect
  \/ StreamConnectFails
  \/ StreamCheck
  \/ \E outcome \in DecodeOutcomes : StreamDecode(outcome)
  \/ StreamSend
  \/ StreamSendCancelled
  \/ StreamCloseErrCh
  \/ StreamCloseStatsCh
  \/ StreamReceiveError

\* calls of GetStats for one container that do not overlap, some of which
\* fail, and ClearPreviousStats between them
NoCallRunning == \A g \in StatCallers : gs.call[g].pc = "idle"

NextSeqStats ==
  \/ \E g \in StatCallers : NoCallRunning /\ GetStatsFetch(g)
  \/ \E g \in StatCallers : NoCallRunning /\ GetStatsFetchFails(g)
  \/ \E g \in StatCallers : GetStatsSwap(g)
  \/ \E g \in StatCallers : GetStatsReturn(g)
  \/ NoCallRunning /\ ClearPreviousStats

\* every root can be walked, the preference store is empty
InitExtra ==
  /\ roots = [r \in Roots |-> TRUE]
  /\ store = [id \in ProjectIDs |-> NoPref]
  /\ prefcall = [fn |-> "none", id |-> "id1", called |-> FALSE,
                 outcome |-> "ok", result |-> "none", n |-> 0]
  /\ logs = StartedLogs
  /\ gs = StartedStats
  /\ stream = StartedStream

Init == InitManager /\ InitHub /\ InitExtra /\ input = <<>> /\ output = <<>>

\* the manager's refresh passes and its readers
SpecRefresh == Init /\ [][NextRefresh]_vars

\* the manager's lifecycle operations
SpecLifecycle == Init /\ [][NextLifecycle]_vars

\* the hub, its connections and its callers
SpecHub == Init /\ [][NextHub]_vars

\* refresh passes that fail
SpecFailing == Init /\ [][NextFailing]_vars

\* the hub up to and after its shutdown, with a Run goroutine that is
\* scheduled fairly
SpecShutdown == Init /\ [][NextShutdown]_vars /\ FairRun

\* the envelopes of a client, one at a time
SpecEnvelopes == Init /\ [][NextEnvelopes]_vars

\* the hub with subscribing clients
SpecSubs == Init /\ [][NextSubs]_vars

(***************************************************************************)
(* determineProjectStatus on its own.                                      *)
(***************************************************************************)
\* the container states of the daemon's API
ContainerStates ==
  {"running", "exited", "dead", "created", "paused", "restarting"}

\* the container lists of up to MaxContainers containers
StatusInputs ==
  UNION {[1..n -> [State : ContainerStates]] : n \in 0..MaxContainers}

InitStatus ==
  /\ InitManager /\ InitHub /\ InitExtra
  /\ input \in StatusInputs
  /\ output = <<>>

CallDetermineProjectStatus ==
  /\ output = <<>>
  /\ output' = <<determineProjectStatus(input)>>
  /\ UNCHANGED <<mvars, hvars, roots, store, prefcall, input, lvars>>

SpecStatus == InitStatus /\ [][CallDetermineProjectStatus]_vars

(***************************************************************************)
(* calculateCPUPercent on its own.                                         *)
(***************************************************************************)
\* the values of an unsigned counter are 0 .. CounterModulus - 1
CounterModulus == 2 ^ CounterBits

\* subtraction of unsigned integers wraps around
USub(a, b) == (a - b) % CounterModulus

\* <<OnlineCPUs, len(PercpuUsage)>> of a sample
CPUCounts == {<<0, 0>>, <<0, 4>>, <<2, 4>>}

\* a container.StatsResponse, as far as calculateCPUPercent reads it
Sample(total, system, counts) ==
  [nil |-> FALSE, TotalUsage |-> total, SystemUsage |-> system,
   OnlineCPUs |-> counts[1], PercpuLen |-> counts[2]]

\* the nil *container.StatsResponse
NoSample ==
  [nil |-> TRUE, TotalUsage |-> 0, SystemUsage |-> 0, OnlineCPUs |-> 0,
   PercpuLen |-> 0]

\* a float64 percentage as the exact fraction num / den
Percent(num, den) == [num |-> num, den |-> den]

calculateCPUPercent(prev, curr) ==
  IF prev.nil \/ curr.nil THEN Percent(0, 1)
  ELSE LET cpuDelta == USub(curr.TotalUsage, prev.TotalUsage)
           systemDelta == USub(curr.SystemUsage, prev.SystemUsage)
           cpuCount == IF curr.OnlineCPUs # 0 THEN curr.OnlineCPUs
                       ELSE IF curr.PercpuLen # 0 THEN curr.PercpuLen
                       ELSE 1
       IN IF systemDelta > 0 /\ cpuDelta > 0
          THEN Percent(cpuDelta * cpuCount * 100, systemDelta)
          ELSE Percent(0, 1)

\* the previous sample (or none) and the current one
StatsInputs ==
  [prev : {NoSample} \cup
          {Sample(t, y, <<2, 4>>) : t \in 0..(CounterModulus - 1),
                                    y \in 0..(CounterModulus - 1)},
   curr : {Sample(t, y, n) : t \in 0..(CounterModulus - 1),
                             y \in 0..(CounterModulus - 1), n \in CPUCounts}]

InitStats ==
  /\ InitManager /\ InitHub /\ InitExtra
  /\ input \in StatsInputs
  /\ output = <<>>

\* calculateStats calls calculateCPUPercent(prev, curr)
CallCalculateCPUPercent ==
  /\ output = <<>>
  /\ output' = <<calculateCPUPercent(input.prev, input.curr)>>
  /\ UNCHANGED <<mvars, hvars, roots, store, prefcall, input, lvars>>

SpecStats == InitStats /\ [][CallCalculateCPUPercent]_vars

(***************************************************************************)
(* Manager.ListProjects on its own.                                        *)
(***************************************************************************)
\* definition-file paths parent/dir/file; directory and file names are
\* lower-case slugs, represented by their rank in string order
ListedPaths ==
  {q \in [parent : 1..2, dir : 1..2, file : 1..2] : q.parent = 1 \/ q.dir = 1}

\* the Project of a path, as far as ListProjects reads it: the identifier
\* is a function of the whole path, Name of the directory's base name,
\* ComposeFile of the file's base name
ListedProject(path) ==
  [ID |-> path, Name |-> path.dir, ComposeFile |-> path.file]

\* the project maps of up to MaxListed entries (one entry per path)
ListInputs ==
  {{ListedProject(q) : q \in Q} :
     Q \in {P \in SUBSET ListedPaths : Cardinality(P) <= MaxListed}}

\* the orders in which the range over the map may produce its entries
IterationOrders(projects) ==
  {o \in [1..Cardinality(projects) -> projects] :
     \A i, j \in 1..Cardinality(projects) : i # j => o[i] # o[j]}

\* lines 114-124
swapNeededNameOnly(a, b) == a.Name > b.Name

swapNeeded(a, b) ==
  IF a.Name > b.Name THEN TRUE
  ELSE IF a.Name = b.Name THEN a.ComposeFile > b.ComposeFile
  ELSE FALSE

\* lines 113-129: the loop over j for a given i
RECURSIVE SortInner(_, _, _)
SortInner(projects, i, j) ==
  IF j > Len(projects) THEN projects
  ELSE SortInner(IF swapNeeded(projects[i], projects[j])
                 THEN [projects EXCEPT ![i] = projects[j],
                                       ![j] = projects[i]]
                 ELSE projects,
                 i, j + 1)

\* lines 112-130: the loop over i
RECURSIVE SortOuter(_, _)
SortOuter(projects, i) ==
  IF i > Len(projects) THEN projects
  ELSE SortOuter(SortInner(projects, i, i + 1), i + 1)

\* ListProjects when the range over the map produces the entries in order
ListProjects(order) == SortOuter(order, 1)

InitList ==
  /\ InitManager /\ InitHub /\ InitExtra
  /\ input \in ListInputs
  /\ output = <<>>

\* one call; the iteration order is the runtime's choice
CallListProjects ==
  /\ Len(output) < MaxListCalls
  /\ \E order \in IterationOrders(input) :
       output' = Append(output, [order |-> order,
                                 result |-> ListProjects(order)])
  /\ UNCHANGED <<mvars, hvars, roots, store, prefcall, input, lvars>>

SpecList == InitList /\ [][CallListProjects]_vars

\* the preference setters of the manager
SpecPrefs == Init /\ [][NextPrefs]_vars

\* two definition files in one directory
SpecSameDir == Init /\ [][NextSameDir]_vars

(***************************************************************************)
(* applyProtection on its own.                                             *)
(***************************************************************************)
\* container names and images, as the sequences of their parts
PlainName == <<"web">>
TunnelName == <<"cf", "tunnel">>
ProxyName == <<"traefik">>
ProxyTunnelName == <<"traefik", "tunnel">>

ProtectContainers ==
  { [Name |-> PlainName, Image |-> PlainName],
    [Name |-> TunnelName, Image |-> PlainName],
    [Name |-> ProxyName, Image |-> PlainName],
    [Name |-> PlainName, Image |-> TunnelName],
    [Name |-> PlainName, Image |-> ProxyName],
    [Name |-> ProxyName, Image |-> TunnelName],
    [Name |-> ProxyTunnelName, Image |-> PlainName] }

ProjectPaths == {"d1", "d2"}

\* Protected and ProtectionReason as applyProtection can find them
ProtectionStates ==
  {<<FALSE, NoReason>>, <<TRUE, ProtectionUserMarked>>,
   <<TRUE, ProtectionCloudflareTunnel>>, <<TRUE, ProtectionAutoDetected>>}

\* the projects with up to MaxContainers containers
ProtectInputs ==
  { [Path |-> path, Protected |-> st[1], ProtectionReason |-> st[2],
     Containers |-> cs] :
      path \in ProjectPaths, st \in ProtectionStates,
      cs \in UNION {[1..n -> ProtectContainers] : n \in 0..MaxContainers} }

InitProtect ==
  /\ InitManagerState /\ InitHub /\ InitExtra
  /\ policy \in SUBSET ProjectPaths
  /\ input \in ProtectInputs
  /\ output = <<>>

CallApplyProtection ==
  /\ output = <<>>
  /\ output' = <<applyProtection(input)>>
  /\ UNCHANGED <<mvars, hvars, roots, store, prefcall, input, lvars>>

SpecProtect == InitProtect /\ [][CallApplyProtection]_vars

(***************************************************************************)
(* sanitizeProjectName on its own.                                         *)
(***************************************************************************)
\* a name is the sequence of its characters; the characters the names are
\* drawn from: a lower-case and an upper-case letter, a digit, the two
\* separators, the dot and a character outside the allowed set
NameChars == {"a", "A", "7", "-", "_", ".", "$"}

LowerLetters == {"a", "c", "e", "j", "o", "p", "r", "t"}

Digits == {"7"}

\* strings.ToLower, on one character
ToLower(r) == IF r = "A" THEN "a" ELSE r

\* strings.ReplaceAll(name, ".", "-"), on one character
ReplaceDot(r) == IF r = "." THEN "-" ELSE r

\* lines 322-334: the loop, from position i on, with the builder's content
RECURSIVE SanitizeLoop(_, _, _)
SanitizeLoop(name, i, result) ==
  IF i > Len(name) THEN result
  ELSE LET r == name[i]
           written == IF r \in LowerLetters \cup Digits \cup {"-", "_"}
                      THEN Append(result, r)
                      ELSE Append(result, "-")
       IN SanitizeLoop(name, i + 1,
                       IF i = 1 /\ r \notin LowerLetters /\ r \notin Digits
                       THEN <<"p", "-">>
                       ELSE written)

\* strings.Trim(s, "-_")
RECURSIVE TrimSeparators(_)
TrimSeparators(str) ==
  IF str = <<>> THEN str
  ELSE IF Head(str) \in {"-", "_"} THEN TrimSeparators(Tail(str))
  ELSE IF str[Len(str)] \in {"-", "_"}
  THEN TrimSeparators(SubSeq(str, 1, Len(str) - 1))
  ELSE str

sanitizeProjectName(name) ==
  LET lowered == [i \in 1..Len(name) |-> ReplaceDot(ToLower(name[i]))]
      sanitized == TrimSeparators(SanitizeLoop(lowered, 1, <<>>))
  IN IF sanitized = <<>> THEN <<"p", "r", "o", "j", "e", "c", "t">>
     ELSE sanitized

\* the directory base names of up to MaxNameLen characters
NameInputs == UNION {[1..n -> NameChars] : n \in 0..MaxNameLen}

InitSanitize ==
  /\ InitManager /\ InitHub /\ InitExtra
  /\ input \in NameInputs
  /\ output = <<>>

\* deriveProjectName calls sanitizeProjectName(name)
CallSanitizeProjectName ==
  /\ output = <<>>
  /\ output' = <<sanitizeProjectName(input)>>
  /\ UNCHANGED <<mvars, hvars, roots, store, prefcall, input, lvars>>

SpecSanitize == InitSanitize /\ [][CallSanitizeProjectName]_vars

\* protected projects whose file is away during a refresh pass
SpecReappear == Init /\ [][NextReappear]_vars

\* a log stream of a container without TTY
SpecLogs == Init /\ [][NextLogs]_vars

\* a log stream of a container without TTY whose goroutines are scheduled
\* fairly
SpecLogsFair == Init /\ [][NextLogs]_vars /\ FairLogs

\* concurrent GetStats calls for one container
SpecGetStats == Init /\ [][NextGetStats]_vars

\* a StreamStats call
SpecStream == Init /\ [][NextStream]_vars

\* GetStats calls for one container, one after the other
SpecSeqStats == Init /\ [][NextSeqStats]_vars

\* the scanner under both callers of Refresh
SpecScanner == Init /\ [][NextScanner]_vars

Next == NextRefresh \/ NextLifecycle \/ NextHub \/ NextSubs \/ NextScanner
          \/ NextPrefs \/ NextSameDir \/ NextLogs \/ NextGetStats
          \/ NextReappear \/ NextShutdown \/ NextFailing \/ NextSeqStats
          \/ NextStream \/ NextEnvelopes

Spec == Init /\ [][Next]_vars

(***************************************************************************)
(* Properties of the manager.                                              *)
(***************************************************************************)
\* the step is a SetProjectProtection call on project id
ProtectionSet(id) ==
  \E b \in BOOLEAN : SetProjectProtection(id, b, ProtectionUserMarked)

\* the step is the end of a pass of refresher g
Commits(g) == rf[g].pc = "loop" /\ rf'[g].pc = "idle"

\* the map m holds exactly the projects of the scan result res
BuiltFrom(m, res) ==
  /\ \A i \in 1..Len(res) : m[heap[res[i]].ID] = res[i]
  /\ \A id \in ProjectIDs :
       m[id] # NoObj => \E i \in 1..Len(res) : res[i] = m[id]

\* C1: a project that is in the map and protected stays protected, with the
\* same reason, over every step that is not a SetProjectProtection call on
\* it, whenever it is in the map after the step; and a pass whose scan
\* returned the project (from the cache or re-parsed) ends with it in the map
C1_ProtectionSticky ==
  [][ /\ \A id \in ProjectIDs :
           ( /\ InMap(id)
             /\ heap[mprojects[id]].Protected
             /\ ~ProtectionSet(id)
             /\ mprojects'[id] # NoObj )
           => /\ heap'[mprojects'[id]].Protected
              /\ heap'[mprojects'[id]].ProtectionReason =
                   heap[mprojects[id]].ProtectionReason
      /\ \A g \in Refreshers :
           Commits(g) =>
             \A i \in 1..Len(rf[g].result) :
               mprojects'[heap[rf[g].result[i]].ID] = rf[g].result[i]
    ]_vars

\* a pass is storing a re-parsed instance of the edited file's project that
\* is protected as user_marked though it has not been in the map since the
\* file was written
C1_Witness ==
  \E g \in Refreshers :
    /\ rf[g].pc = "loop"
    /\ InMap("id1")
    /\ rf[g].newProjects["id1"] # NoObj
    /\ rf[g].newProjects["id1"] # mprojects["id1"]
    /\ rf[g].newProjects["id1"] = cache[Edited].Project
    /\ fsEvents > 0
    /\ heap[rf[g].newProjects["id1"]].Protected
    /\ heap[rf[g].newProjects["id1"]].ProtectionReason = ProtectionUserMarked

\* C2: when StopProject reads Protected = TRUE, then without force it returns
\* the protection error in that step, with compose down not invoked, the
\* targeted refresh not run and the containers and every project unchanged,
\* and with force it goes on to compose down, which is then invoked
C2_StopProtected ==
  [][ /\ ( /\ op.kind = "stop"
           /\ op.pc = "check"
           /\ op' # op
           /\ heap[op.ptr].Protected )
         => IF op.force
            THEN op'.pc = "compose"
            ELSE /\ op'.pc = "done"
                 /\ op'.result = "protected"
                 /\ ~op'.invoked
                 /\ ~op'.refreshed
                 /\ daemon' = daemon
                 /\ heap' = heap
      /\ (op.kind = "stop" /\ op.pc = "compose" /\ op' # op) => op'.invoked
      /\ (op.kind = "stop" /\ op.pc = "done" /\ op' # op) => op' = IdleOp
    ]_vars

\* a StopProject without force has returned the protection error
C2_Witness ==
  /\ op.kind = "stop"
  /\ op.pc = "done"
  /\ ~op.force
  /\ op.saw
  /\ op.result = "protected"
  /\ InMap(op.id)
  /\ heap[mprojects[op.id]].Containers # <<>>

\* C3: when RestartProject reads Protected = TRUE it returns the protection
\* error in that step, with compose restart not invoked, the targeted refresh
\* not run and the containers and every project unchanged
C3_RestartProtected ==
  [][ /\ ( /\ op.kind = "restart"
           /\ op.pc = "check"
           /\ op' # op
           /\ heap[op.ptr].Protected )
         => /\ op'.pc = "done"
            /\ op'.result = "protected"
            /\ ~op'.invoked
            /\ ~op'.refreshed
            /\ daemon' = daemon
            /\ heap' = heap
      /\ (op.kind = "restart" /\ op.pc = "done" /\ op' # op) => op' = IdleOp
    ]_vars

\* a RestartProject has returned the protection error
C3_Witness ==
  /\ op.kind = "restart"
  /\ op.pc = "done"
  /\ op.saw
  /\ op.result = "protected"
  /\ ~op.invoked
  /\ ~op.refreshed

\* C4: the map changes only in the last step of a pass, under the write lock
\* and with no reader inside, to the map built from the whole scan result of
\* that pass; a reader inside ListProjects or GetProject therefore has the
\* map as the last completed pass left it
C4_MapSwappedWhole ==
  [][ /\ mprojects' # mprojects =>
           \E g \in Refreshers :
             /\ Commits(g)
             /\ mmu.w = g
             /\ mmu.r = {}
             /\ rd.pc # "reading"
             /\ mprojects' = rf[g].newProjects
             /\ BuiltFrom(mprojects', rf[g].result)
      /\ rd'.pc = "reading" => mprojects' = installed'
      /\ rd.pc = "reading" => mprojects' = mprojects
    ]_vars

\* a reader is inside its call, between a completed pass and a pass that is
\* waiting for the lock with a different set of projects
C4_Witness ==
  /\ rd.pc = "reading"
  /\ InMap("id1")
  /\ InMap("id2")
  /\ \E g \in Refreshers : rf[g].pc = "lock" /\ Len(rf[g].result) = 1

(***************************************************************************)
(* Properties of the hub.                                                  *)
(***************************************************************************)
\* the step is the event loop's send attempt to client c for the message
\* it took off the broadcast channel
LoopAttempt(c) == lp.pc = "bcast" /\ c \in lp.rem /\ c \notin lp'.rem

\* the step is the send attempt of BroadcastToSubscribers to member c
TargetedAttempt(c) ==
  /\ bs.pc = "range"
  /\ c \in bs.rem
  /\ c \notin bs'.rem
  /\ c \in hclients
  /\ closed[c] = 0

\* the subscription set of c is empty or contains the scope of the call
InScope(c) == subs[c] = {} \/ bs.pid \in subs[c]

QueueFull(c) == Len(send[c]) >= SendCap

\* the step closes c's send channel, removes c and enqueues nothing to c
Disconnected(c) ==
  /\ c \notin hclients'
  /\ closed'[c] = closed[c] + 1
  /\ send'[c] = send[c]

\* the step leaves c as it is
Untouched(c) ==
  /\ send'[c] = send[c]
  /\ closed'[c] = closed[c]
  /\ c \in hclients' <=> c \in hclients

\* C5: the event loop attempts every member once per broadcast message; an
\* attempt that finds the queue full closes the client's channel and removes
\* the client, an attempt that finds space enqueues the message and keeps
\* the client, and neither touches any other client
C5_SlowClientDropped ==
  [][ /\ \A c \in Clients :
           LoopAttempt(c) =>
             /\ IF QueueFull(c)
                THEN Disconnected(c)
                ELSE /\ send'[c] = Append(send[c], lp.msg)
                     /\ closed'[c] = closed[c]
                     /\ c \in hclients' <=> c \in hclients
             /\ \A d \in Clients \ {c} :
                  Untouched(d) /\ (d \in lp'.rem <=> d \in lp.rem)
      /\ (lp.pc = "bwait" /\ lp'.pc = "bcast") => lp'.rem = hclients
      /\ (lp.pc = "bcast" /\ lp'.pc # "bcast") => lp.rem = {}
      /\ (lp.pc = "bcast" /\ lp'.pc = "bcast") =>
           lp'.rem \subseteq lp.rem /\ lp'.msg = lp.msg
    ]_vars

\* a broadcast has been attempted on every member: one client, whose
\* connection is still open, was dropped with a full queue and another
\* client got the message
C5_Witness ==
  /\ lp.pc = "bcast"
  /\ lp.rem = {}
  /\ \E c, d \in Clients :
       /\ c # d
       /\ cpc[c] = "active"
       /\ closed[c] = 1
       /\ c \notin hclients
       /\ QueueFull(c)
       /\ d \in lp.got
       /\ d \in hclients

\* C6: BroadcastToSubscribers enqueues the message to a member with queue
\* space iff the member's subscription set is empty or contains the scope
C6_TargetedScope ==
  [][ \A c \in Clients :
        (TargetedAttempt(c) /\ ~QueueFull(c)) =>
          IF InScope(c)
          THEN send'[c] = Append(send[c], bs.msg)
          ELSE send'[c] = send[c]
    ]_vars

\* a call scoped to Y has passed the client subscribed to X only without
\* enqueueing and has enqueued to the client without subscriptions
C6_Witness ==
  /\ bs.pc = "range"
  /\ bs.rem = {}
  /\ Subscriber \in hclients
  /\ subs[Subscriber] = {"X"}
  /\ \A i \in 1..Len(send[Subscriber]) : send[Subscriber][i] # Message("Y")
  /\ \E d \in hclients :
       /\ subs[d] = {}
       /\ \E i \in 1..Len(send[d]) : send[d][i] = Message("Y")

\* C7: every send attempt that finds the client's queue full, by the event
\* loop or by BroadcastToSubscribers, closes the client's channel and
\* removes the client without enqueueing
C7_FullQueueDisconnects ==
  [][ \A c \in Clients :
        ( \/ LoopAttempt(c) /\ QueueFull(c)
          \/ TargetedAttempt(c) /\ InScope(c) /\ QueueFull(c) )
        => Disconnected(c)
    ]_vars

\* C8: the event loop does not enqueue a message to a client that has
\* subscriptions none of which is the message's project scope
C8_LoopHonoursSubscriptions ==
  [][ \A c \in Clients :
        (LoopAttempt(c) /\ subs[c] # {} /\ lp.msg.pid \notin subs[c]) =>
          send'[c] = send[c]
    ]_vars

\* C9: every step that changes the membership set is a step of the Run
\* goroutine, and no other goroutine moves in it
C9_OnlyRunMutates ==
  [][ hclients' # hclients =>
        RunStep /\ bs' = bs /\ ss' = ss /\ cpc' = cpc
    ]_vars

\* members have come and gone while a BroadcastToSubscribers call that met
\* a full queue is inside its range
C9_Witness ==
  /\ bs.pc = "range"
  /\ bs.full # {}
  /\ hclients # {}
  /\ \E c \in Clients : closed[c] > 0 /\ c \notin hclients

\* C10: every step that changes the membership set is taken while the Run
\* goroutine holds the hub lock exclusively
C10_MutationUnderWriteLock ==
  [][ hclients' # hclients => hmu.w = "run" /\ hmu.r = {} ]_vars

(***************************************************************************)
(* Properties of the scanner.                                              *)
(***************************************************************************)
\* caller g's Scan parses its files and returns in this step
Parses(g) == rf[g].pc = "scanning" /\ rf'[g].pc = "scanned"

\* file f is among the files the walk of g's Scan found
Walked(g, f) == \E i \in 1..Len(rf[g].yamlFiles) : rf[g].yamlFiles[i] = f

\* the cache holds an entry for f whose modification time and checksum are
\* those of the file as it is now
StoredMatches(f) ==
  /\ cache[f].Project # NoObj
  /\ cache[f].ModTime = fs[f].mtime
  /\ cache[f].CheckSum = fileChecksum(fs[f].content)

\* the projects g's Scan returns for file f, in the state after the step
ReturnedFor(g, f) ==
  {rf'[g].result[i] : i \in {j \in 1..Len(rf'[g].result) :
                               heap'[rf'[g].result[j]].ComposeFilePath = f}}

\* the step allocated a new Project for f and stored it in the cache with
\* the file's current modification time and checksum
Replaced(f) ==
  /\ cache'[f].Project > Len(heap)
  /\ cache'[f].ModTime = fs[f].mtime
  /\ cache'[f].CheckSum = fileChecksum(fs[f].content)

\* the file's current content is a compose definition with services
YieldsProject(f) ==
  ~ParseFails(fs[f].content) /\ ServicesOf(fs[f].content) # {}

\* C11 as stated: a Scan returns the cached Project of a file it walked,
\* without re-parsing, iff the cache entry's modification time and checksum
\* equal the file's current values; when an entry exists and one of the two
\* differs, the file is re-parsed and the cache entry is replaced
C11_MismatchReplacesEntry ==
  [][\A g \in Refreshers, f \in Files :
       Parses(g) /\ Walked(g, f) =>
         /\ StoredMatches(f) <=>
              /\ cache[f].Project # NoObj
              /\ ReturnedFor(g, f) = {cache[f].Project}
              /\ cache'[f] = cache[f]
         /\ cache[f].Project # NoObj /\ ~StoredMatches(f) => Replaced(f)]_vars

\* C11 amended: a Scan returns the cached Project of a file it walked,
\* without re-parsing, iff the cache entry's modification time and checksum
\* equal the file's current values; otherwise the file is re-parsed, and the
\* cache entry is replaced by the new Project when the parse yields one and
\* is left as it was when the parse fails or finds no services
C11_CacheHitIffStoredMatches ==
  [][\A g \in Refreshers, f \in Files :
       Parses(g) /\ Walked(g, f) =>
         /\ StoredMatches(f) <=>
              /\ cache[f].Project # NoObj
              /\ ReturnedFor(g, f) = {cache[f].Project}
              /\ cache'[f] = cache[f]
         /\ ~StoredMatches(f) /\ YieldsProject(f) =>
              Replaced(f) /\ ReturnedFor(g, f) = {cache'[f].Project}
         /\ ~StoredMatches(f) /\ ~YieldsProject(f) =>
              cache'[f] = cache[f] /\ ReturnedFor(g, f) = {}]_vars

\* a Scan has returned a re-parsed Project for a file whose content was
\* rewritten without a change of the modification time, and another file
\* was served from the cache
C11_Witness ==
  \E g \in Refreshers, f \in Files, f2 \in Files :
    /\ f2 # f
    /\ rf[g].pc = "scanned"
    /\ fs[f].content = "svcB" /\ fs[f].mtime = 0
    /\ cache[f].CheckSum = fileChecksum("svcB")
    /\ \E i \in 1..Len(rf[g].result) : rf[g].result[i] = cache[f].Project
    /\ cache[f].Project > 1
    /\ \E i \in 1..Len(rf[g].result) :
         /\ rf[g].result[i] = cache[f2].Project
         /\ rf[g].result[i] < cache[f].Project

\* C12: a Scan never returns a project for a file whose current content
\* parses to zero services, whatever the cache holds for that file
C12_NoServicesNoProject ==
  [][\A g \in Refreshers, f \in Files :
       Parses(g) /\ ~ParseFails(fs[f].content)
                /\ ServicesOf(fs[f].content) = {} =>
         ReturnedFor(g, f) = {}]_vars

\* a Scan walked a file that is in the cache from an earlier version, whose
\* content now declares no services, and returned no project for it
C12_Witness ==
  \E g \in Refreshers, f \in Files :
    /\ rf[g].pc = "scanned"
    /\ \E i \in 1..Len(rf[g].yamlFiles) : rf[g].yamlFiles[i] = f
    /\ fs[f].content = "none"
    /\ cache[f].Project # NoObj
    /\ \A i \in 1..Len(rf[g].result) :
         heap[rf[g].result[i]].ComposeFilePath # f

(***************************************************************************)
(* Properties of determineProjectStatus.                                   *)
(***************************************************************************)
TerminalStates == {"exited", "dead", "created"}

\* C13: determineProjectStatus returns stopped for the empty list, running
\* when every container is running, stopped when every container is exited,
\* dead or created, and partial when the list holds at least one running
\* and at least one exited, dead or created container
C13_StatusOfContainers ==
  output # <<>> =>
    LET n == Len(input)
        Running(i) == input[i].State = "running"
        Terminal(i) == input[i].State \in TerminalStates
    IN /\ n = 0 => output[1] = StatusStopped
       /\ n > 0 /\ (\A i \in 1..n : Running(i)) => output[1] = StatusRunning
       /\ n > 0 /\ (\A i \in 1..n : Terminal(i)) => output[1] = StatusStopped
       /\ (\E i \in 1..n : Running(i)) /\ (\E i \in 1..n : Terminal(i)) =>
            output[1] = StatusPartial

\* a list with a running, a dead and a created container was given the
\* status partial
C13_Witness ==
  /\ output = <<StatusPartial>>
  /\ Len(input) = 3
  /\ {input[i].State : i \in 1..3} = {"running", "dead", "created"}

(***************************************************************************)
(* Properties of calculateCPUPercent.                                      *)
(***************************************************************************)
\* C14: the CPU percent is 0 when there is no previous sample, and 0
\* whenever the current system-time counter is not above the previous one,
\* whatever the CPU-time counters are
C14_ZeroUnlessSystemAdvanced ==
  output # <<>> =>
    /\ input.prev.nil => output[1].num = 0
    /\ ~input.prev.nil
         /\ input.curr.SystemUsage <= input.prev.SystemUsage =>
           output[1].num = 0

(***************************************************************************)
(* Properties of ListProjects.                                             *)
(***************************************************************************)
\* C15: whatever the iteration order, the sequence ListProjects returns
\* holds every entry of the map exactly once, ordered by Name ascending and,
\* among equal Names, by ComposeFile ascending
C15_ListedSortedAndComplete ==
  \A k \in 1..Len(output) :
    LET r == output[k].result
    IN /\ Len(r) = Cardinality(input)
       /\ {r[i] : i \in 1..Len(r)} = input
       /\ \A i, j \in 1..Len(r) :
            i < j =>
              \/ r[i].Name < r[j].Name
              \/ r[i].Name = r[j].Name
                   /\ r[i].ComposeFile <= r[j].ComposeFile

\* a map of three entries, two of one Name with different files, was
\* iterated in an order that is not the sorted one
C15_Witness ==
  \E k \in 1..Len(output) :
    /\ Len(output[k].result) = 3
    /\ output[k].order # output[k].result
    /\ output[k].result[1].Name = output[k].result[2].Name
    /\ output[k].result[1].ComposeFile < output[k].result[2].ComposeFile
    /\ output[k].result[2].Name < output[k].result[3].Name

\* C16: for a fixed map every call of ListProjects returns the same
\* sequence, also when two projects have equal Name and equal ComposeFile
C16_ListingDeterministic ==
  \A k, l \in 1..Len(output) : output[k].result = output[l].result

(***************************************************************************)
(* Properties of the preference setters.                                   *)
(***************************************************************************)
\* a preference call is made in this step
PrefCalled == prefcall'.n # prefcall.n

\* C17: when the store returns an error, SetProjectDisplayName and
\* SetProjectHidden return an error and leave every project entry in
\* memory as it was (the model's entries carry no timestamps); for an
\* unknown project id they return not-found and the store is neither
\* called nor changed
C17_StoreErrorAbortsUpdate ==
  [][PrefCalled =>
       /\ prefcall'.called /\ prefcall'.outcome = "error" =>
            prefcall'.result = "error" /\ heap' = heap /\ store' = store
       /\ mprojects[prefcall'.id] = NoObj =>
            /\ prefcall'.result = "notfound"
            /\ ~prefcall'.called
            /\ store' = store /\ heap' = heap]_vars

\* a call for a project of the map, whose display name and hidden flag had
\* been set before, has just returned the store's error
C17_Witness ==
  /\ prefcall.called /\ prefcall.outcome = "error"
  /\ prefcall.result = "error"
  /\ mprojects[prefcall.id] # NoObj
  /\ heap[mprojects[prefcall.id]].DisplayName = "alpha"
  /\ heap[mprojects[prefcall.id]].Hidden
  /\ store[prefcall.id].present

(***************************************************************************)
(* Properties of the callers of the scanner.                               *)
(***************************************************************************)
\* C18: at most one Scanner.Scan is executing at any time, for every
\* interleaving of the Refresh calls of the periodic scanner and of the
\* list-projects handler
C18_OneScanAtATime ==
  Cardinality({g \in Refreshers : rf[g].pc = "scanning"}) <= 1

(***************************************************************************)
(* Properties of the container lists.                                      *)
(***************************************************************************)
\* the container IDs in the container list of the map's entry id
ContainerIDsOf(id) ==
  {heap[mprojects[id]].Containers[i].ID :
     i \in 1..Len(heap[mprojects[id]].Containers)}

\* C19: while no Refresh is rebuilding the map, no container ID is in the
\* container lists of two different projects of the map
C19_ContainerOwnedOnce ==
  mmu.w = NoHolder =>
    \A a, b \in ProjectIDs :
      a # b /\ InMap(a) /\ InMap(b) =>
        ContainerIDsOf(a) \cap ContainerIDsOf(b) = {}

(***************************************************************************)
(* Properties of the walk of the roots.                                    *)
(***************************************************************************)
\* caller g's Scan walks the roots in this step
Walks(g) == rf[g].pc = "idle" /\ rf'[g].pc = "scanning"

\* C20: when a root cannot be walked, the Scan still collects the files
\* under the other roots, and its error list holds an entry that names the
\* failing root
C20_FailingRootReported ==
  [][\A g \in Refreshers, r \in Roots :
       Walks(g) /\ ~roots[r] =>
         /\ \A r2 \in Roots :
              roots[r2] =>
                \A i \in 1..Len(FilesUnder(r2)) :
                  \E j \in 1..Len(rf'[g].yamlFiles) :
                    rf'[g].yamlFiles[j] = FilesUnder(r2)[i]
         /\ \E i \in 1..Len(rf'[g].errors) :
              rf'[g].errors[i].Path = r]_vars

(***************************************************************************)
(* Properties of the map a Refresh installs.                               *)
(***************************************************************************)
\* the identifiers of the projects that g's Scan returned
ScannedIDs(g) == {heap[rf[g].result[i]].ID : i \in 1..Len(rf[g].result)}

\* C21: the map a successful Refresh installs holds exactly the identifiers
\* of the projects that the pass's scan returned
C21_MapKeysAreScannedIDs ==
  [][\A g \in Refreshers :
       Commits(g) =>
         {id \in ProjectIDs : mprojects'[id] # NoObj} = ScannedIDs(g)]_vars

\* a pass has removed the project of the edited file, which an earlier
\* pass had installed, and kept the other project
C21_Witness ==
  /\ \A g \in Refreshers : rf[g].pc = "idle"
  /\ mprojects[generateProjectID(Edited)] = NoObj
  /\ cache[Edited].Project # NoObj
  /\ mprojects["id2"] # NoObj
  /\ heap[cache[Edited].Project].Status # StatusUnknown

(***************************************************************************)
(* Properties of sanitizeProjectName.                                      *)
(***************************************************************************)
\* C22: a sanitized name consists of a-z, 0-9, '_' and '-' only, is never
\* empty, and starts with "p-" whenever the first character of the given
\* name is not a letter or a digit
C22_SanitizedNameShape ==
  output # <<>> =>
    LET res == output[1]
    IN /\ \A i \in 1..Len(res) :
            res[i] \in LowerLetters \cup Digits \cup {"_", "-"}
       /\ Len(res) > 0
       /\ Len(input) > 0 /\ input[1] \notin {"a", "A", "7"} =>
            Len(res) >= 2 /\ res[1] = "p" /\ res[2] = "-"

(***************************************************************************)
(* Properties of lifecycle calls that race with the protection.            *)
(***************************************************************************)
\* C23: StopProject without force never runs compose down while the
\* project's entry in the map is protected
C23_NoDownWhileProtected ==
  [][op.pc = "compose" /\ op'.invoked /\ op.kind = "stop" /\ ~op.force
       /\ InMap(op.id) =>
         ~heap[mprojects[op.id]].Protected]_vars

(***************************************************************************)
(* Properties of sends and closes of the send channels.                    *)
(***************************************************************************)
\* C24: no goroutine sends on a client's send channel after the channel
\* was closed (such a send panics)
C24_NoSendOnClosedChannel == ~panicked

(***************************************************************************)
(* Properties of a lifecycle operation that overlaps a full Refresh.       *)
(***************************************************************************)
\* C26: when a full Refresh completes after a Stop of project P has
\* completed its targeted refresh (the command removed the containers of P
\* and nothing creates them again), the entry stored for P has no containers
\* and is stopped, also when the Refresh took its snapshot of the containers
\* before the command ran
C26_CommandOutlivesOlderSnapshot ==
  [][(/\ Commits("periodic")
      /\ op.pc = "done" /\ op.kind = "stop" /\ op.refreshed
      /\ mprojects'[op.id] # NoObj)
     => /\ heap'[mprojects'[op.id]].Containers = <<>>
        /\ heap'[mprojects'[op.id]].Status = StatusStopped]_vars

\* C29: a Refresh that installs its map installs for every identifier an
\* instance that is not the one of the previous map, and leaves the instances
\* of the previous map as they were when it took the lock
C29_RefreshInstallsNewInstances ==
  [][/\ (Commits("periodic") =>
           \A id \in ProjectIDs :
             (mprojects[id] # NoObj /\ mprojects'[id] # NoObj)
               => mprojects'[id] # mprojects[id])
     /\ (rf["periodic"].pc = "loop" /\ rf'["periodic"].pc = "loop") =>
           \A id \in ProjectIDs :
             mprojects[id] # NoObj => heap'[mprojects[id]] = heap[mprojects[id]]]_vars

\* some instance of project id was marked protected by the user (the policy
\* is empty, so the reason user_marked comes from SetProjectProtection only)
UserMarked(id) ==
  \E o \in DOMAIN heap :
    /\ heap[o].ID = id
    /\ heap[o].Protected
    /\ heap[o].ProtectionReason = ProtectionUserMarked

\* C28: a project that was marked protected through SetProjectProtection
\* (and never unmarked) is protected whenever it is in the map, also after a
\* refresh pass that did not find its file and a later pass that did
C28_ProtectionSurvivesAbsence ==
  \A id \in ProjectIDs :
    (UserMarked(id) /\ mprojects[id] # NoObj)
      => heap[mprojects[id]].Protected

(***************************************************************************)
(* Properties of GetStats calls that do not overlap.                       *)
(***************************************************************************)
\* C36: a call that has stored its sample took as baseline the sample of the
\* successful call before it (samples are numbered in the order of the
\* successful fetches), or no sample when nothing was stored since the table
\* was last empty, and its own sample is the stored one; a call that failed
\* took no baseline, and between the calls the stored sample is the latest
\* one unless ClearPreviousStats removed it
C36_SequentialBaseline ==
  /\ \A g \in StatCallers :
       /\ gs.call[g].pc = "swapped" =>
            /\ gs.call[g].curr = gs.fetched
            /\ gs.call[g].prev =
                 (IF gs.sinceClear = 1 THEN 0 ELSE gs.call[g].curr - 1)
            /\ gs.prev = gs.call[g].curr
       /\ gs.call[g].pc = "failed" => gs.call[g].prev = 0
  /\ (\A g \in StatCallers : gs.call[g].pc \in {"idle", "failed"}) =>
       gs.prev = (IF gs.sinceClear = 0 THEN 0 ELSE gs.fetched)

\* a call has stored the third sample with the second as its baseline, the
\* first having been removed by ClearPreviousStats
C36_Witness ==
  \E g \in StatCallers :
    /\ gs.call[g].pc = "swapped"
    /\ gs.call[g].curr = 3
    /\ gs.call[g].prev = 2
    /\ gs.sinceClear = 2

(***************************************************************************)
(* Properties of StreamStats.                                              *)
(***************************************************************************)
\* C37: when a stream that was connected has ended both channels are
\* closed, and the error channel has carried exactly one error when the feed
\* did not decode and none when the feed ended cleanly or the producer
\* stopped because the caller cancelled
C37_StreamEndsWithItsErrors ==
  (stream.pc = "ended" /\ stream.queued = 0 /\ stream.end # "connect") =>
    /\ stream.errClosed /\ stream.statsClosed
    /\ stream.end = "malformed" => stream.carried = 1
    /\ stream.end \in {"eof", "cancelled", "aborted"} => stream.carried = 0

(***************************************************************************)
(* Properties of a Refresh that fails.                                     *)
(***************************************************************************)
\* the step belongs to the part of Refresh before it takes the lock: the
\* scan, the listing of the containers, or the return of an error
BeforeLock(g) ==
  rf'[g] # rf[g] /\ rf[g].pc \in {"idle", "scanning", "scanned"}

\* the step is the return of Refresh with an error
RefreshFails(g) ==
  rf[g].pc \in {"scanning", "scanned"} /\ rf'[g].pc = "idle"

\* C35: no step of Refresh before it takes the lock, and so no Refresh that
\* returns the error of the scan or of the listing of the containers,
\* changes the project map or a project that is in it
C35_FailedRefreshChangesNothing ==
  [][(BeforeLock("periodic") \/ RefreshFails("periodic")) =>
       /\ mprojects' = mprojects
       /\ \A id \in ProjectIDs :
            mprojects[id] # NoObj =>
              heap'[mprojects[id]] = heap[mprojects[id]]]_vars

\* the periodic Refresh is not running, the map has the project of the
\* edited file, and the scanner's cache holds a newer instance of it that no
\* pass installed: the pass that parsed it has failed
C35_Witness ==
  /\ rf["periodic"].pc = "idle"
  /\ mprojects["id1"] # NoObj
  /\ cache[Edited].Project # NoObj
  /\ cache[Edited].Project # mprojects["id1"]

(***************************************************************************)
(* Properties of the send channels.                                        *)
(***************************************************************************)
\* C33: no send channel is closed more than once, and the channel of a
\* client that is in h.clients is open
C33_SendClosedAtMostOnce ==
  \A c \in Clients :
    /\ closed[c] <= 1
    /\ c \in hclients => closed[c] = 0

\* Run handles the Unregister of a client whose channel it closed when it
\* found the queue full (the context is not cancelled)
C33_Witness ==
  /\ ~ctxDone
  /\ lp.pc = "unregL"
  /\ closed[lp.c] = 1
  /\ lp.c \notin hclients
  /\ cpc[lp.c] = "gone"

\* C34: a Register call that blocks on h.register and an Unregister call
\* that blocks on h.unregister eventually return
C34_RegisterUnregisterReturn ==
  \A c \in Clients :
    /\ (cpc[c] = "registering") ~> (cpc[c] # "registering")
    /\ (cpc[c] = "unregistering") ~> (cpc[c] = "gone")

(***************************************************************************)
(* Properties of the subscription envelopes.                               *)
(***************************************************************************)
\* C39: after an envelope was handled the client's subscriptions are those
\* it had before with the identifiers of the payload added (subscribe) or
\* removed (unsubscribe), for a payload of one identifier and for a list
C39_EnvelopeAddsOrRemovesAll ==
  output # <<>> =>
    LET e == output[1]
    IN subs[e.c] = IF e.type = "subscribe" THEN e.before \cup e.ids
                   ELSE e.before \ e.ids

\* the step is BroadcastToSubscribers reaching client c, whose queue has room
VisitsWithRoom(c) ==
  /\ bs.pc = "range" /\ c \in bs.rem /\ bs'.rem = bs.rem \ {c}
  /\ Len(send[c]) < SendCap

\* C40: an unsubscribe from the only project a client is subscribed to
\* leaves the client with the empty set, and a client with the empty set is
\* sent the messages of BroadcastToSubscribers whatever their project
C40_UnsubscribeRestoresDefault ==
  [][/\ (/\ input # <<>> /\ input' = <<>>
         /\ input[1].type = "unsubscribe" /\ input[1].single
         /\ subs[input[1].c] = input[1].ids)
        => subs'[input[1].c] = {}
     /\ \A c \in Clients :
          (VisitsWithRoom(c) /\ subs[c] = {})
            => send'[c] = Append(send[c], bs.msg)]_vars

\* the client unsubscribed from X, the only project it was subscribed to,
\* and has since been sent a message scoped to Y
C40_Witness ==
  /\ output # <<>>
  /\ output[1].type = "unsubscribe" /\ output[1].single
  /\ output[1].ids = {"X"} /\ output[1].before = {"X"}
  /\ subs[Subscriber] = {}
  /\ output[1].queued = 0
  /\ send[Subscriber] = <<Message("Y")>>

(***************************************************************************)
(* Properties of the targeted refresh.                                     *)
(***************************************************************************)
\* the step is the locked part of refreshProject
TargetedRefresh == op.pc = "apply" /\ op'.pc = "done" /\ op'.refreshed

\* C31: the targeted refresh of project P scans nothing, leaves the map and
\* every other instance as they are, and changes of the entry of P at most
\* the containers and the status
C31_TargetedRefreshTouchesOnlyP ==
  [][TargetedRefresh =>
       /\ mprojects' = mprojects
       /\ cache' = cache /\ rf' = rf /\ policy' = policy
       /\ DOMAIN heap' = DOMAIN heap
       /\ \A o \in DOMAIN heap :
            o # mprojects[op.id] => heap'[o] = heap[o]
       /\ mprojects[op.id] # NoObj =>
            LET a == heap[mprojects[op.id]]
                b == heap'[mprojects[op.id]]
            IN [b EXCEPT !.Containers = a.Containers,
                         !.Status = a.Status] = a]_vars

\* a Start has refreshed an unprotected project that has a container with
\* a keyword, while another project is in the map
C31_Witness ==
  /\ op.pc = "done" /\ op.refreshed /\ op.kind = "start"
  /\ mprojects[op.id] # NoObj
  /\ ~heap[mprojects[op.id]].Protected
  /\ heap[mprojects[op.id]].Containers # <<>>
  /\ FirstHeuristic(heap[mprojects[op.id]].Containers)[1]
  /\ \E id \in ProjectIDs : id # op.id /\ mprojects[id] # NoObj

\* C32: while no writer holds the manager's lock, every project of the map
\* has the status determineProjectStatus gives for its own containers: an
\* entry without containers is stopped and no entry is unknown
C32_StatusMatchesContainers ==
  mmu.w = NoHolder =>
    \A id \in ProjectIDs :
      mprojects[id] # NoObj =>
        LET proj == heap[mprojects[id]]
        IN /\ proj.Status = determineProjectStatus(proj.Containers)
           /\ proj.Containers = <<>> => proj.Status = StatusStopped
           /\ proj.Status # StatusUnknown

\* the lock is free, one project of the map is stopped with an exited
\* container and another has no containers
C32_Witness ==
  /\ mmu.w = NoHolder
  /\ \E a \in ProjectIDs, b \in ProjectIDs :
       /\ a # b
       /\ mprojects[a] # NoObj /\ mprojects[b] # NoObj
       /\ heap[mprojects[a]].Containers # <<>>
       /\ heap[mprojects[a]].Status = StatusStopped
       /\ heap[mprojects[b]].Containers = <<>>
       /\ heap[mprojects[b]].Status = StatusStopped

(***************************************************************************)
(* Properties of applyProtection.                                          *)
(***************************************************************************)
\* the string holds a tunnel keyword, a reverse-proxy keyword
HasTunnelKeyword(str) ==
  \E i \in 1..Len(str) : str[i] \in cloudflarePatterns

HasProxyKeyword(str) ==
  \E i \in 1..Len(str) : str[i] \in criticalPatterns

HasKeyword(str) == HasTunnelKeyword(str) \/ HasProxyKeyword(str)

ReasonOfString(str) ==
  IF HasTunnelKeyword(str) THEN ProtectionCloudflareTunnel
  ELSE ProtectionAutoDetected

\* the containers of the list with a keyword in their name or their image
KeywordContainers(cs) ==
  {i \in 1..Len(cs) : HasKeyword(cs[i].Name) \/ HasKeyword(cs[i].Image)}

\* C30: a project that is not protected becomes protected as user_marked
\* when the policy has its path; otherwise it takes the reason of the first
\* container with a keyword, of its name before its image and of a tunnel
\* keyword before a reverse-proxy keyword; without such a container it stays
\* unprotected; a protected project is left as it is
C30_ProtectionEvaluation ==
  output # <<>> =>
    LET p == input
        q == output[1]
        hits == KeywordContainers(p.Containers)
        first == CHOOSE i \in hits : \A j \in hits : i <= j
        str == IF HasKeyword(p.Containers[first].Name)
               THEN p.Containers[first].Name
               ELSE p.Containers[first].Image
    IN /\ q.Path = p.Path /\ q.Containers = p.Containers
       /\ p.Protected => q = p
       /\ (~p.Protected /\ p.Path \in policy) =>
            (q.Protected /\ q.ProtectionReason = ProtectionUserMarked)
       /\ (~p.Protected /\ p.Path \notin policy /\ hits # {}) =>
            (q.Protected /\ q.ProtectionReason = ReasonOfString(str))
       /\ (~p.Protected /\ p.Path \notin policy /\ hits = {}) => q = p

\* an unprotected project outside the policy whose first container has no
\* keyword and whose second has a reverse-proxy name and a tunnel image
C30_Witness ==
  /\ output # <<>>
  /\ ~input.Protected
  /\ input.Path \notin policy
  /\ policy # {}
  /\ Len(input.Containers) >= 2
  /\ input.Containers[1] = [Name |-> PlainName, Image |-> PlainName]
  /\ input.Containers[2] = [Name |-> ProxyName, Image |-> TunnelName]
  /\ output[1].Protected
  /\ output[1].ProtectionReason = ProtectionAutoDetected

(***************************************************************************)
(* Properties of the log stream.                                           *)
(***************************************************************************)
\* C25: no forwarder attempts a send on the stdout or stderr output
\* channel after StreamLogs has closed it (such a send panics)
C25_NoSendAfterLogChannelClosed == ~logs.panic

\* C38: once the context is cancelled the stream comes to a state where
\* StreamLogs has closed its output channels and no forwarder is left with a
\* chunk to send
C38_CancelEndsPendingSends ==
  logs.cancelled ~>
    (/\ logs.main = "returned"
     /\ \A s \in LogStreams : logs.chClosed[s] /\ logs.fwd[s] # "hold")

(***************************************************************************)
(* Properties of concurrent GetStats calls.                                *)
(***************************************************************************)
\* C27: the stored baseline is the most recently fetched of the samples
\* stored so far, and no call takes a baseline that was fetched after its
\* own sample
C27_BaselineIsLatestSample ==
  /\ \A g \in StatCallers :
       gs.call[g].pc = "swapped" =>
         /\ gs.call[g].prev < gs.call[g].curr
         /\ gs.prev >= gs.call[g].curr
  /\ (\A g \in StatCallers : gs.call[g].pc # "fetched") =>
       gs.prev = gs.fetched

====
